---- MODULE Spec2Model ----
(***************************************************************************)
(* State-machine model of the simple_chores integration: the chore sensor  *)
(* registry and its reconciliation against configuration snapshots         *)
(* (sensor.py), the points ledger (data.py), the chore services            *)
(* (services.py) and the configuration loader (config_loader.py).          *)
(*                                                                         *)
(* Identifiers (assignees, slugs, entity ids) are sequences of one-letter  *)
(* strings, so that sanitize_entity_id and the f-string concatenations of  *)
(* the source are computed, not assumed.                                   *)
(***************************************************************************)
EXTENDS Integers, Sequences, FiniteSets, TLC

VARIABLES
    sensors,                  \* ChoreSensorManager.sensors: id -> chore sensor
    privilege_sensors,        \* ChoreSensorManager.privilege_sensors
    summary_sensors,          \* ChoreSensorManager.summary_sensors: assignee -> summary
    points,                   \* PointsStorage._data
    points_earned,            \* PointsStorage._points_earned
    points_missed,            \* PointsStorage._points_missed
    privilege_states,         \* PointsStorage._privilege_states
    privilege_disable_until,  \* PointsStorage._privilege_disable_until
    now,                      \* the clock, in minutes
    last_op,                  \* the last call made
    file,                     \* the configuration file: None or its document
    file_mtime,               \* the modification time of the file
    loader_config,            \* ConfigLoader._config: None or Some(snapshot)
    loader_last_mtime,        \* ConfigLoader._last_mtime: None or Some(time)
    load_result,              \* how the last async_load ended
    callbacks,                \* ConfigLoader._callbacks, in registration order
    notified,                 \* the callback invocations of the last loader call
    watch_task,               \* ConfigLoader._watch_task: None or Some(task)
    tasks,                    \* the poll-loop tasks created: task -> its state
    stopping,                 \* the async_stop_watching call in flight, or None
    in_flight                 \* the editing or service call in flight, or None

vars == <<sensors, privilege_sensors, summary_sensors, points, points_earned,
          points_missed, privilege_states, privilege_disable_until, now,
          last_op, file, file_mtime, loader_config, loader_last_mtime,
          load_result, callbacks, notified, watch_task, tasks, stopping,
          in_flight>>

\* The poll loop and the calls in flight
watcher_vars == <<callbacks, watch_task, tasks, stopping, in_flight>>

\* What the sensor manager and the services never touch
loader_vars == <<file, file_mtime, loader_config, loader_last_mtime,
                 load_result, notified, watcher_vars>>

\* What the configuration loader never touches
manager_vars == <<sensors, privilege_sensors, summary_sensors, points,
                  points_earned, points_missed, privilege_states,
                  privilege_disable_until, now, last_op>>

\* What the chore services never touch
privilege_vars == <<privilege_sensors, privilege_states,
                    privilege_disable_until, now>>

(***************************************************************************)
(* Bounds of the model.                                                    *)
(***************************************************************************)
\* Ledger counters are kept within -MaxCounter .. MaxCounter by the guards.
MaxCounter == 2
\* The clock runs from 0 to MaxNow.
MaxNow == 1
\* The configuration file is written at most MaxWrites times.
MaxWrites == 2
\* At most MaxTasks poll-loop tasks are created.
MaxTasks == 2
\* At most MaxCallbacks callbacks are registered.
MaxCallbacks == 3
\* The service calls that may be in flight at the same time
MaxCalls == 2

(***************************************************************************)
(* const.py: sanitize_entity_id                                            *)
(***************************************************************************)
\* An absent string argument.  The handlers test `if user:`, which treats
\* None and the empty string alike, so both are the empty sequence here.
None == <<>>

\* The alphabet: letters, and the characters "-", "_" and "!".
UpperCase == {"A", "B", "D", "O"}

LowerCase == {"a", "b", "d", "o", "t"}

\* str.lower() on one character
lower(c) ==
    CASE c = "A" -> "a"
      [] c = "B" -> "b"
      [] c = "D" -> "d"
      [] c = "O" -> "o"
      [] OTHER -> c

\* str.isalnum() on one character of the model's alphabet
isalnum(c) == c \in UpperCase \cup LowerCase

sanitize_entity_id(value) ==
    LET lowered  == [i \in DOMAIN value |-> lower(value[i])]
        replaced == [i \in DOMAIN lowered |->
                        IF lowered[i] = "-" THEN "_" ELSE lowered[i]]
        keep(c)  == isalnum(c) \/ c = "_"
    IN  SelectSeq(replaced, keep)

\* f"{a}_{b}"
joined(a, b) == a \o <<"_">> \o b

\* f"{sanitize_entity_id(assignee)}_{sanitize_entity_id(slug)}"
entity_key(assignee, slug) ==
    joined(sanitize_entity_id(assignee), sanitize_entity_id(slug))

\* str.startswith / str.endswith
startswith(s, prefix) ==
    /\ Len(prefix) <= Len(s)
    /\ SubSeq(s, 1, Len(prefix)) = prefix

endswith(s, suffix) ==
    /\ Len(suffix) <= Len(s)
    /\ SubSeq(s, Len(s) - Len(suffix) + 1, Len(s)) = suffix

(***************************************************************************)
(* models.py: enumerations and the chore definition                        *)
(***************************************************************************)
DAILY == "daily"
MANUAL == "manual"
ONCE == "once"
ChoreFrequency == {DAILY, MANUAL, ONCE}

PENDING == "Pending"
COMPLETE == "Complete"
NOT_REQUESTED == "Not Requested"
ChoreState == {PENDING, COMPLETE, NOT_REQUESTED}

AUTOMATIC == "automatic"
MANUAL_BEHAVIOR == "manual"
PrivilegeBehavior == {AUTOMATIC, MANUAL_BEHAVIOR}

\* ENABLED is a keyword of TLA+
PRIVILEGE_ENABLED == "Enabled"
DISABLED == "Disabled"
TEMPORARILY_DISABLED == "Temporarily Disabled"
PrivilegeState == {PRIVILEGE_ENABLED, DISABLED, TEMPORARILY_DISABLED}

\* ChoreConfig: validate_slug stores the sanitized slug
ChoreConfig(name, slug, frequency, assignees, pts) ==
    [name |-> name, slug |-> sanitize_entity_id(slug), frequency |-> frequency,
     assignees |-> assignees, points |-> pts]

\* PrivilegeConfig: validate_slug stores the sanitized slug
PrivilegeConfig(name, slug, behavior, linked_chores, assignees) ==
    [name |-> name, slug |-> sanitize_entity_id(slug), behavior |-> behavior,
     linked_chores |-> linked_chores, assignees |-> assignees]

(***************************************************************************)
(* The bounded input domain: two assignees (one of them with a capital     *)
(* letter, which sanitize_entity_id changes), two chore slugs, and the     *)
(* configuration snapshots built from them.                                *)
(***************************************************************************)
Al == <<"A">>
bo == <<"b">>
Assignees == {Al, bo}

dishes == <<"d">>
trash == <<"t">>
Slugs == {dishes, trash}

\* The user argument of a service call: absent, or an assignee name.
Users == {None} \cup Assignees

SimpleChoresConfig(chores, privileges) ==
    [chores |-> chores, privileges |-> privileges]

\* The chores of the configurations a fresh installation is set up with:
\* "dishes" for both assignees, "trash" for one of them.
\* Points are 0, 1 or 2 (ChoreConfig.points has ge=0).
DishesDaily == ChoreConfig("Dishes", dishes, DAILY, <<Al, bo>>, 1)
DishesOnce == ChoreConfig("Dishes", dishes, ONCE, <<Al, bo>>, 2)
TrashManual == ChoreConfig("Trash", trash, MANUAL, <<bo>>, 1)
TrashFree == ChoreConfig("Trash", trash, MANUAL, <<bo>>, 0)

SetupConfigs ==
    { SimpleChoresConfig(<<DishesDaily, TrashManual>>, <<>>),
      SimpleChoresConfig(<<DishesOnce, TrashFree>>, <<>>) }

\* The snapshots a reconciliation is run with: the dishes with one of two
\* definitions or not at all, and the "tv" privilege of Al, linked to the
\* dishes, present or not.
tv == <<"o">>
TvAutomatic == PrivilegeConfig("TV", tv, AUTOMATIC, <<dishes>>, <<Al>>)

ReconcileConfigs ==
    { SimpleChoresConfig(<<>>, <<>>),
      SimpleChoresConfig(<<DishesDaily>>, <<>>),
      SimpleChoresConfig(<<DishesDaily>>, <<TvAutomatic>>),
      SimpleChoresConfig(<<DishesOnce>>, <<TvAutomatic>>) }

(***************************************************************************)
(* data.py: PointsStorage.  Each counter is a dict keyed by assignee; a    *)
(* missing key reads as 0 and is created by the first write.               *)
(***************************************************************************)
dict_get(d, k) == IF k \in DOMAIN d THEN d[k] ELSE 0

dict_set(d, k, v) == [x \in DOMAIN d \cup {k} |-> IF x = k THEN v ELSE d[x]]

get_points(assignee) == dict_get(points, assignee)

get_points_earned(assignee) == dict_get(points_earned, assignee)

get_points_missed(assignee) == dict_get(points_missed, assignee)

add_points(data, assignee, pts) ==
    dict_set(data, assignee, dict_get(data, assignee) + pts)

add_points_earned(earned, assignee, pts) ==
    dict_set(earned, assignee, dict_get(earned, assignee) + pts)

\* A storage that records the latest rollover's missed points instead of
\* accumulating them.
overwrite_points_missed(missed, assignee, pts) == dict_set(missed, assignee, pts)

add_points_missed(missed, assignee, pts) ==
    dict_set(missed, assignee, dict_get(missed, assignee) + pts)

\* PointsStorage.set_points, set_points_earned, set_points_missed and
\* get_all_points (the totals only)
set_points(data, assignee, pts) == dict_set(data, assignee, pts)

set_points_earned(earned, assignee, pts) == dict_set(earned, assignee, pts)

set_points_missed(missed, assignee, pts) == dict_set(missed, assignee, pts)

get_all_points(data) == data

\* The guard that keeps the counters finite.
InBounds(d) == \A k \in DOMAIN d : d[k] \in -MaxCounter .. MaxCounter

\* The privilege dicts are nested, assignee -> slug -> value; here they are
\* keyed by the pair.  A state that is not stored reads as None.
NoState == "None"

\* An optional time is None or the one-element sequence of the time.
Some(time) == <<time>>

\* datetime.isoformat and datetime.fromisoformat
isoformat(time) == <<"iso", time>>
fromisoformat(timestamp) == timestamp[2]

get_privilege_state(states, assignee, privilege_slug) ==
    IF <<assignee, privilege_slug>> \in DOMAIN states
    THEN states[<<assignee, privilege_slug>>]
    ELSE NoState

set_privilege_state(states, assignee, privilege_slug, state) ==
    dict_set(states, <<assignee, privilege_slug>>, state)

get_privilege_disable_until(untils, assignee, privilege_slug) ==
    IF <<assignee, privilege_slug>> \in DOMAIN untils
    THEN Some(fromisoformat(untils[<<assignee, privilege_slug>>]))
    ELSE None

\* A storage that never forgets an end time
keep_privilege_disable_until(untils, assignee, privilege_slug, until) ==
    IF until = None
    THEN untils
    ELSE dict_set(untils, <<assignee, privilege_slug>>, isoformat(until[1]))

set_privilege_disable_until(untils, assignee, privilege_slug, until) ==
    IF until = None
    THEN [k \in DOMAIN untils \ {<<assignee, privilege_slug>>} |-> untils[k]]
    ELSE dict_set(untils, <<assignee, privilege_slug>>, isoformat(until[1]))

(***************************************************************************)
(* sensor.py: ChoreSensor and ChoreSensorManager                           *)
(***************************************************************************)
\* ChoreSensor.__init__: the state starts NOT_REQUESTED
ChoreSensor(chore, assignee) ==
    [chore |-> chore, assignee |-> assignee, state |-> NOT_REQUESTED]

\* ChoreSensor.update_chore_config: only the definition is replaced
update_chore_config(sensor, chore) == [sensor EXCEPT !.chore = chore]

\* The (chore, assignee) pairs of a snapshot in iteration order
RECURSIVE chore_pairs(_)
chore_pairs(chores) ==
    IF chores = <<>> THEN <<>>
    ELSE [i \in DOMAIN Head(chores).assignees |->
             [chore |-> Head(chores), assignee |-> Head(chores).assignees[i]]]
         \o chore_pairs(Tail(chores))

\* ChoreSensorManager._create_sensors_from_config
RECURSIVE create_sensors_loop(_, _)
create_sensors_loop(pairs, ss) ==
    IF pairs = <<>> THEN ss
    ELSE LET p == Head(pairs)
             entity_id == entity_key(p.assignee, p.chore.slug)
         IN  create_sensors_loop(Tail(pairs),
                 IF entity_id \notin DOMAIN ss
                 THEN [k \in DOMAIN ss \cup {entity_id} |->
                          IF k = entity_id THEN ChoreSensor(p.chore, p.assignee)
                          ELSE ss[k]]
                 ELSE ss)

create_sensors_from_config(config, ss) ==
    create_sensors_loop(chore_pairs(config.chores), ss)

\* The key under which _update_sensors_from_config looks up and stores a
\* sensor (sensor.py line 242): the assignee is not sanitized here.
update_entity_id(assignee, slug) == joined(assignee, slug)

\* The second loop of _update_sensors_from_config
RECURSIVE update_sensors_loop(_, _)
update_sensors_loop(pairs, ss) ==
    IF pairs = <<>> THEN ss
    ELSE LET p == Head(pairs)
             entity_id == update_entity_id(p.assignee, p.chore.slug)
         IN  update_sensors_loop(Tail(pairs),
                 [k \in DOMAIN ss \cup {entity_id} |->
                     IF k = entity_id
                     THEN IF entity_id \in DOMAIN ss
                          THEN update_chore_config(ss[entity_id], p.chore)
                          ELSE ChoreSensor(p.chore, p.assignee)
                     ELSE ss[k]])

\* expected_entities of _update_sensors_from_config
expected_entities(config) ==
    LET pairs == chore_pairs(config.chores)
    IN  { entity_key(pairs[i].assignee, pairs[i].chore.slug) : i \in DOMAIN pairs }

\* ChoreSensorManager._update_sensors_from_config
update_sensors_from_config(config, ss) ==
    LET expected == expected_entities(config)
        kept == [k \in DOMAIN ss \cap expected |-> ss[k]]
    IN  update_sensors_loop(chore_pairs(config.chores), kept)

(***************************************************************************)
(* sensor.py: PrivilegeSensor and the privilege part of the manager.  The  *)
(* operators work on the record of the three things they change:           *)
(* [privilege_sensors, privilege_states, privilege_disable_until].         *)
(***************************************************************************)
\* PrivilegeSensor.__init__: DISABLED, no temporary-disable end time
PrivilegeSensor(privilege, assignee) ==
    [privilege |-> privilege, assignee |-> assignee, state |-> DISABLED,
     disable_until |-> None]

update_privilege_config(sensor, privilege) ==
    [sensor EXCEPT !.privilege = privilege]

Privileges ==
    [privilege_sensors |-> privilege_sensors,
     privilege_states |-> privilege_states,
     privilege_disable_until |-> privilege_disable_until]

\* An evaluation that is satisfied by one complete linked chore
any_linked_chore_complete(sensor, ss) ==
    \E i \in DOMAIN sensor.privilege.linked_chores :
        LET sensor_id == entity_key(sensor.assignee,
                                    sensor.privilege.linked_chores[i])
        IN  /\ sensor_id \in DOMAIN ss
            /\ ss[sensor_id].state = COMPLETE

\* An evaluation whose fallback rule looks at the chores of everybody
everybodys_chores_complete(sensor, ss) ==
    IF sensor.privilege.linked_chores = <<>>
    THEN /\ \A id \in DOMAIN ss : ss[id].state # PENDING
         /\ \E id \in DOMAIN ss : ss[id].state = COMPLETE
    ELSE \A i \in DOMAIN sensor.privilege.linked_chores :
            LET sensor_id == entity_key(sensor.assignee,
                                        sensor.privilege.linked_chores[i])
            IN  /\ sensor_id \in DOMAIN ss
                /\ ss[sensor_id].state = COMPLETE

\* PrivilegeSensor._are_linked_chores_complete, over the chore sensors ss
are_linked_chores_complete(sensor, ss) ==
    LET linked == sensor.privilege.linked_chores
        mine == { id \in DOMAIN ss : ss[id].assignee = sensor.assignee }
    IN  IF linked = <<>>
        THEN /\ \A id \in mine : ss[id].state # PENDING
             /\ \E id \in mine : ss[id].state = COMPLETE
        ELSE \A i \in DOMAIN linked :
                LET sensor_id == entity_key(sensor.assignee, linked[i])
                IN  /\ sensor_id \in DOMAIN ss
                    /\ ss[sensor_id].state = COMPLETE

\* A re-evaluation that does not look at the timer
check_and_update_state_ignoring_timer(w, key, ss, t) ==
    LET sensor == w.privilege_sensors[key]
        new_state == IF are_linked_chores_complete(sensor, ss)
                     THEN PRIVILEGE_ENABLED ELSE DISABLED
    IN  IF sensor.privilege.behavior # AUTOMATIC THEN w
        ELSE [privilege_sensors |->
                 [w.privilege_sensors EXCEPT
                     ![key] = [sensor EXCEPT !.state = new_state,
                                             !.disable_until = None]],
              privilege_states |->
                 set_privilege_state(w.privilege_states, sensor.assignee,
                                     sensor.privilege.slug, new_state),
              privilege_disable_until |->
                 set_privilege_disable_until(w.privilege_disable_until,
                     sensor.assignee, sensor.privilege.slug, None)]

\* A re-evaluation that does not look at the behaviour
check_and_update_state_of_any_behavior(w, key, ss, t) ==
    LET sensor == w.privilege_sensors[key]
        new_state == IF are_linked_chores_complete(sensor, ss)
                     THEN PRIVILEGE_ENABLED ELSE DISABLED
    IN  IF /\ sensor.state = TEMPORARILY_DISABLED
           /\ sensor.disable_until # None
           /\ t < sensor.disable_until[1]
        THEN w
        ELSE [privilege_sensors |->
                 [w.privilege_sensors EXCEPT
                     ![key] = [sensor EXCEPT !.state = new_state,
                                             !.disable_until = None]],
              privilege_states |->
                 set_privilege_state(w.privilege_states, sensor.assignee,
                                     sensor.privilege.slug, new_state),
              privilege_disable_until |->
                 set_privilege_disable_until(w.privilege_disable_until,
                     sensor.assignee, sensor.privilege.slug, None)]

\* PrivilegeSensor._check_and_update_state at time t
check_and_update_state(w, key, ss, t) ==
    LET sensor == w.privilege_sensors[key]
        a == sensor.assignee
        slug == sensor.privilege.slug
        temp == sensor.state = TEMPORARILY_DISABLED
        cleared == IF temp THEN [sensor EXCEPT !.disable_until = None] ELSE sensor
        untils == IF temp
                  THEN set_privilege_disable_until(w.privilege_disable_until,
                                                   a, slug, None)
                  ELSE w.privilege_disable_until
        new_state == IF are_linked_chores_complete(cleared, ss)
                     THEN PRIVILEGE_ENABLED ELSE DISABLED
    IN  IF sensor.privilege.behavior # AUTOMATIC THEN w
        ELSE IF temp /\ sensor.disable_until # None /\ t < sensor.disable_until[1]
        THEN w
        ELSE IF cleared.state # new_state
        THEN [privilege_sensors |->
                 [w.privilege_sensors EXCEPT
                     ![key] = [cleared EXCEPT !.state = new_state]],
              privilege_states |->
                 set_privilege_state(w.privilege_states, a, slug, new_state),
              privilege_disable_until |-> untils]
        ELSE [privilege_sensors |-> [w.privilege_sensors EXCEPT ![key] = cleared],
              privilege_states |-> w.privilege_states,
              privilege_disable_until |-> untils]

\* PrivilegeSensor.async_added_to_hass at time t: the state and the end time
\* are read back from the storage
privilege_added_to_hass(w, key, ss, t) ==
    LET sensor == w.privilege_sensors[key]
        a == sensor.assignee
        slug == sensor.privilege.slug
        stored_state == get_privilege_state(w.privilege_states, a, slug)
        restored ==
            [sensor EXCEPT
                !.state = IF stored_state \in PrivilegeState
                          THEN stored_state ELSE sensor.state,
                !.disable_until =
                    get_privilege_disable_until(w.privilege_disable_until, a, slug)]
        w2 == [w EXCEPT !.privilege_sensors[key] = restored]
    IN  IF /\ restored.state = TEMPORARILY_DISABLED
           /\ restored.disable_until # None
           /\ t >= restored.disable_until[1]
        THEN check_and_update_state(w2, key, ss, t)
        ELSE w2

\* The (privilege, assignee) pairs of a snapshot in iteration order
RECURSIVE privilege_pairs(_)
privilege_pairs(privileges) ==
    IF privileges = <<>> THEN <<>>
    ELSE [i \in DOMAIN Head(privileges).assignees |->
             [privilege |-> Head(privileges),
              assignee |-> Head(privileges).assignees[i]]]
         \o privilege_pairs(Tail(privileges))

\* A new PrivilegeSensor is put into the dict and handed to
\* async_add_entities, which runs its async_added_to_hass.
add_privilege_sensor(w, key, privilege, assignee, ss, t) ==
    LET created ==
            [k \in DOMAIN w.privilege_sensors \cup {key} |->
                IF k = key THEN PrivilegeSensor(privilege, assignee)
                ELSE w.privilege_sensors[k]]
    IN  privilege_added_to_hass([w EXCEPT !.privilege_sensors = created],
                                key, ss, t)

\* The second loop of _update_privilege_sensors (with update = TRUE) and the
\* loop of _create_privilege_sensors (with update = FALSE)
RECURSIVE privilege_sensors_loop(_, _, _, _, _)
privilege_sensors_loop(pairs, w, ss, t, update) ==
    IF pairs = <<>> THEN w
    ELSE LET p == Head(pairs)
             entity_id == entity_key(p.assignee, p.privilege.slug)
         IN  privilege_sensors_loop(Tail(pairs),
                 IF entity_id \in DOMAIN w.privilege_sensors
                 THEN IF update
                      THEN [w EXCEPT !.privilege_sensors[entity_id] =
                               update_privilege_config(@, p.privilege)]
                      ELSE w
                 ELSE add_privilege_sensor(w, entity_id, p.privilege,
                                           p.assignee, ss, t),
                 ss, t, update)

create_privilege_sensors(config, w, ss, t) ==
    privilege_sensors_loop(privilege_pairs(config.privileges), w, ss, t, FALSE)

\* ChoreSensorManager._update_privilege_sensors: a removed sensor is deleted
\* from the dict; nothing is removed from the storage.
update_privilege_sensors(config, w, ss, t) ==
    LET pairs == privilege_pairs(config.privileges)
        expected == { entity_key(pairs[i].assignee, pairs[i].privilege.slug) :
                        i \in DOMAIN pairs }
        kept == [k \in DOMAIN w.privilege_sensors \cap expected |->
                    w.privilege_sensors[k]]
    IN  privilege_sensors_loop(pairs, [w EXCEPT !.privilege_sensors = kept],
                               ss, t, TRUE)

\* _create_summary_sensors and _update_summary_sensors: one summary sensor
\* per assignee of the snapshot's chores
config_assignees(config) ==
    LET pairs == chore_pairs(config.chores)
    IN  { pairs[i].assignee : i \in DOMAIN pairs }

\* ChoreSummarySensor.__init__: the cached attributes start at their defaults
ChoreSummarySensor(assignee) == [assignee |-> assignee, points_possible |-> 0]

\* ChoreSummarySensor.async_update, lines 657-668: pending_points
RECURSIVE pending_points(_, _)
pending_points(ids, ss) ==
    IF ids = {} THEN 0
    ELSE LET id == CHOOSE x \in ids : TRUE
         IN  ss[id].chore.points + pending_points(ids \ {id}, ss)

\* ChoreSummarySensor.async_update: the cached points_possible is computed
\* from the chore sensors of the assignee and the earned and missed counters
summary_async_update(summary, ss, earned, missed) ==
    LET pending == { id \in DOMAIN ss :
                       /\ ss[id].assignee = summary.assignee
                       /\ ss[id].state = PENDING }
    IN  [summary EXCEPT
            !.points_possible = dict_get(earned, summary.assignee)
                                + dict_get(missed, summary.assignee)
                                + pending_points(pending, ss)]

\* ChoreSummarySensor.extra_state_attributes["points_possible"]: the cached
\* value
read_points_possible(summary) == summary.points_possible

\* ChoreSensorManager._create_summary_sensors and _update_summary_sensors:
\* the summaries are keyed by the assignee as written; the ones of other
\* assignees are removed, new ones are created, and every one is updated
update_summary_sensors(config, summaries, ss, earned, missed) ==
    [a \in config_assignees(config) |->
        summary_async_update(
            IF a \in DOMAIN summaries THEN summaries[a]
            ELSE ChoreSummarySensor(a),
            ss, earned, missed)]

(***************************************************************************)
(* services.py                                                             *)
(***************************************************************************)
\* `if user:` -- None and the empty string are both falsy
truthy(user) == user # None

\* A lookup by the chore alone, whoever was named
find_sensors_of_chore(ss, chore_slug, user) ==
    { id \in DOMAIN ss : ss[id].chore.slug = chore_slug }

\* _find_matching_sensors: the ids of the matching sensors
find_matching_sensors(ss, chore_slug, user) ==
    LET sanitized_chore == sanitize_entity_id(chore_slug)
        sensor_id == joined(sanitize_entity_id(user), sanitized_chore)
    IN  IF truthy(user)
        THEN IF sensor_id \in DOMAIN ss THEN {sensor_id} ELSE {}
        ELSE { id \in DOMAIN ss :
                 /\ endswith(id, <<"_">> \o sanitized_chore)
                 /\ ss[id].chore.slug = chore_slug }

\* The record of the last call: the name of the handler, and for
\* handle_start_new_day whether the call before it was handle_start_new_day
\* too (two calls in succession with nothing in between).
OpRecord(name) ==
    [name |-> name,
     again |-> (name = "start_new_day" /\ last_op.name = "start_new_day")]

\* A handler without the was_complete test of line 246 would award on every
\* call.
awards_points_on_every_call(sensor) == TRUE

\* handle_mark_complete, lines 231 and 246: the award condition of one sensor
awards_points(sensor) == sensor.state # COMPLETE

\* A handler without the was_complete test of line 325 would deduct on every
\* call.
deducts_points_on_every_call(sensor) == TRUE

\* handle_mark_pending, lines 310 and 325: the deduction condition
deducts_points(sensor) == sensor.state = COMPLETE

\* The for-loop of handle_mark_complete over the matching sensors
RECURSIVE mark_complete_loop(_, _)
mark_complete_loop(todo, acc) ==
    IF todo = {} THEN acc
    ELSE LET id == CHOOSE x \in todo : TRUE
             sensor == acc.sensors[id]
             award == awards_points(sensor)
             pts == sensor.chore.points
         IN  mark_complete_loop(todo \ {id},
                [sensors |-> [acc.sensors EXCEPT ![id].state = COMPLETE],
                 points |-> IF award
                            THEN add_points(acc.points, sensor.assignee, pts)
                            ELSE acc.points,
                 points_earned |-> IF award
                            THEN add_points_earned(acc.points_earned, sensor.assignee, pts)
                            ELSE acc.points_earned])

\* The for-loop of handle_mark_pending over the matching sensors
RECURSIVE mark_pending_loop(_, _)
mark_pending_loop(todo, acc) ==
    IF todo = {} THEN acc
    ELSE LET id == CHOOSE x \in todo : TRUE
             sensor == acc.sensors[id]
             deduct == deducts_points(sensor)
             pts == sensor.chore.points
         IN  mark_pending_loop(todo \ {id},
                [sensors |-> [acc.sensors EXCEPT ![id].state = PENDING],
                 points |-> IF deduct
                            THEN add_points(acc.points, sensor.assignee, -pts)
                            ELSE acc.points,
                 points_earned |-> IF deduct
                            THEN add_points_earned(acc.points_earned, sensor.assignee, -pts)
                            ELSE acc.points_earned])

Ledger == [sensors |-> sensors, points |-> points, points_earned |-> points_earned]

\* services._update_summary_sensors(hass, user): the summary is looked up
\* under the sanitized user
services_update_summary_sensors(summaries, user, ss, earned, missed) ==
    IF truthy(user)
    THEN LET sanitized_user == sanitize_entity_id(user)
         IN  IF sanitized_user \in DOMAIN summaries
             THEN [summaries EXCEPT
                      ![sanitized_user] =
                          summary_async_update(@, ss, earned, missed)]
             ELSE summaries
    ELSE [k \in DOMAIN summaries |->
             summary_async_update(summaries[k], ss, earned, missed)]

\* for affected_user in affected_users: _update_summary_sensors(hass, ...)
RECURSIVE update_affected_users(_, _, _, _, _)
update_affected_users(affected_users, summaries, ss, earned, missed) ==
    IF affected_users = {} THEN summaries
    ELSE LET affected_user == CHOOSE x \in affected_users : TRUE
         IN  update_affected_users(affected_users \ {affected_user},
                 services_update_summary_sensors(summaries, affected_user,
                                                 ss, earned, missed),
                 ss, earned, missed)

\* A service call that raises ServiceValidationError changes nothing.
Rejected(name) ==
    /\ last_op' = OpRecord(name)
    /\ UNCHANGED loader_vars
    /\ UNCHANGED <<sensors, points, points_earned, points_missed>>
    /\ UNCHANGED privilege_vars
    /\ UNCHANGED summary_sensors

handle_mark_complete(user, chore_slug) ==
    LET matching_sensors == find_matching_sensors(sensors, chore_slug, user)
        out == mark_complete_loop(matching_sensors, Ledger)
    IN  IF matching_sensors = {}
        THEN Rejected("mark_complete")
        ELSE /\ InBounds(out.points) /\ InBounds(out.points_earned)
             /\ sensors' = out.sensors
             /\ points' = out.points
             /\ points_earned' = out.points_earned
             /\ last_op' = OpRecord("mark_complete")
             /\ UNCHANGED loader_vars
             /\ UNCHANGED points_missed
             /\ UNCHANGED privilege_vars
             /\ summary_sensors' =
                    update_affected_users(
                        { sensors[id].assignee : id \in matching_sensors },
                        summary_sensors, sensors', points_earned',
                        points_missed')

handle_mark_pending(user, chore_slug) ==
    LET matching_sensors == find_matching_sensors(sensors, chore_slug, user)
        out == mark_pending_loop(matching_sensors, Ledger)
    IN  IF matching_sensors = {}
        THEN Rejected("mark_pending")
        ELSE /\ InBounds(out.points) /\ InBounds(out.points_earned)
             /\ sensors' = out.sensors
             /\ points' = out.points
             /\ points_earned' = out.points_earned
             /\ last_op' = OpRecord("mark_pending")
             /\ UNCHANGED loader_vars
             /\ UNCHANGED points_missed
             /\ UNCHANGED privilege_vars
             /\ summary_sensors' =
                    update_affected_users(
                        { sensors[id].assignee : id \in matching_sensors },
                        summary_sensors, sensors', points_earned',
                        points_missed')

handle_mark_not_requested(user, chore_slug) ==
    LET matching_sensors == find_matching_sensors(sensors, chore_slug, user)
    IN  IF matching_sensors = {}
        THEN Rejected("mark_not_requested")
        ELSE /\ sensors' = [id \in DOMAIN sensors |->
                    IF id \in matching_sensors
                    THEN [sensors[id] EXCEPT !.state = NOT_REQUESTED]
                    ELSE sensors[id]]
             /\ last_op' = OpRecord("mark_not_requested")
             /\ UNCHANGED loader_vars
             /\ UNCHANGED <<points, points_earned, points_missed>>
             /\ UNCHANGED privilege_vars
             /\ summary_sensors' =
                    update_affected_users(
                        { sensors[id].assignee : id \in matching_sensors },
                        summary_sensors, sensors', points_earned',
                        points_missed')

\* The user filter of handle_reset_completed and handle_start_new_day
\* (lines 440, 500, 541): a sensor is skipped when a user is given and its id
\* does not start with the sanitized user and an underscore.
in_filter(user, sensor_id) ==
    ~truthy(user) \/ startswith(sensor_id, sanitize_entity_id(user) \o <<"_">>)

handle_reset_completed(user) ==
    LET hit == { id \in DOMAIN sensors :
                   in_filter(user, id) /\ sensors[id].state = COMPLETE }
    IN  /\ sensors' = [id \in DOMAIN sensors |->
               IF id \in hit THEN [sensors[id] EXCEPT !.state = NOT_REQUESTED]
               ELSE sensors[id]]
        /\ last_op' = OpRecord("reset_completed")
        /\ UNCHANGED loader_vars
        /\ UNCHANGED <<points, points_earned, points_missed>>
        /\ UNCHANGED privilege_vars
        /\ summary_sensors' =
               update_affected_users({ sensors[id].assignee : id \in hit },
                   summary_sensors, sensors', points_earned', points_missed')

\* handle_start_new_day, lines 497-513: assignee_stats[assignee]["missed"]
RECURSIVE sum_points(_, _)
sum_points(ids, ss) ==
    IF ids = {} THEN 0
    ELSE LET id == CHOOSE x \in ids : TRUE
         IN  ss[id].chore.points + sum_points(ids \ {id}, ss)

\* Statistics taken after the state changes would also count the chores that
\* were COMPLETE.
counts_every_requested_chore(sensor) == sensor.state # NOT_REQUESTED

\* handle_start_new_day, lines 504-511: only PENDING chores are missed
counts_as_missed(sensor) == sensor.state = PENDING

assignee_stats(user, ss) ==
    LET scope == { id \in DOMAIN ss : in_filter(user, id) }
    IN  [a \in { ss[id].assignee : id \in scope } |->
            sum_points({ id \in scope : ss[id].assignee = a
                                        /\ counts_as_missed(ss[id]) }, ss)]

\* handle_start_new_day, lines 516-522: add_points_missed when missed > 0
RECURSIVE update_points_missed(_, _)
update_points_missed(stats, missed) ==
    IF DOMAIN stats = {} THEN missed
    ELSE LET a == CHOOSE x \in DOMAIN stats : TRUE
             rest == [x \in DOMAIN stats \ {a} |-> stats[x]]
         IN  update_points_missed(rest,
                IF stats[a] > 0 THEN add_points_missed(missed, a, stats[a])
                ELSE missed)

\* A reset that treats every frequency like MANUAL.
new_day_state_resets_once(sensor) ==
    IF sensor.state = COMPLETE THEN NOT_REQUESTED ELSE sensor.state

\* handle_start_new_day, lines 546-557: the new state of a sensor in the filter
new_day_state(sensor) ==
    IF sensor.state = COMPLETE
    THEN IF sensor.chore.frequency = MANUAL THEN NOT_REQUESTED
         ELSE IF sensor.chore.frequency = DAILY THEN PENDING
         ELSE sensor.state
    ELSE sensor.state

\* handle_start_new_day, lines 535-576: the state changes
new_day_sensors(user, ss) ==
    [id \in DOMAIN ss |->
        IF in_filter(user, id)
        THEN [ss[id] EXCEPT !.state = new_day_state(ss[id])]
        ELSE ss[id]]

\* A rollover that also clears the totals, as handle_reset_points does.
start_new_day_clearing_totals(user) ==
    [sensors |-> new_day_sensors(user, sensors),
     points |-> [a \in DOMAIN points |-> 0],
     points_earned |-> points_earned,
     points_missed |-> update_points_missed(assignee_stats(user, sensors),
                                            points_missed)]

\* handle_start_new_day: what the call leaves in the sensors and the storage.
\* The statistics are taken before any state changes.
start_new_day_result(user) ==
    [sensors |-> new_day_sensors(user, sensors),
     points |-> points,
     points_earned |-> points_earned,
     points_missed |-> update_points_missed(assignee_stats(user, sensors),
                                            points_missed)]

\* handle_start_new_day, lines 546-549: the assignees of the sensors in the
\* filter that are COMPLETE
new_day_affected_users(user, ss) ==
    { ss[id].assignee :
        id \in { x \in DOMAIN ss : in_filter(user, x) /\ ss[x].state = COMPLETE } }

handle_start_new_day(user) ==
    LET out == start_new_day_result(user)
    IN  /\ InBounds(out.points_missed)
        /\ sensors' = out.sensors
        /\ points' = out.points
        /\ points_earned' = out.points_earned
        /\ points_missed' = out.points_missed
        /\ last_op' = OpRecord("start_new_day")
        /\ UNCHANGED loader_vars
        /\ UNCHANGED privilege_vars
        /\ summary_sensors' =
               update_affected_users(new_day_affected_users(user, sensors),
                   summary_sensors, sensors', points_earned', points_missed')

\* handle_adjust_points: the adjustment is added to the total of the user
handle_adjust_points(user, adjustment) ==
    /\ InBounds(add_points(points, user, adjustment))
    /\ points' = add_points(points, user, adjustment)
    /\ last_op' = OpRecord("adjust_points")
    /\ UNCHANGED loader_vars
    /\ UNCHANGED <<sensors, points_earned, points_missed>>
    /\ UNCHANGED privilege_vars
    /\ summary_sensors' =
           services_update_summary_sensors(summary_sensors, user, sensors',
               points_earned', points_missed')

\* handle_reset_points, lines 816-826: the user, or the keys of
\* get_all_points() and the assignees of the chore sensors
users_to_reset(user) ==
    IF truthy(user)
    THEN {user}
    ELSE DOMAIN get_all_points(points)
             \cup { sensors[id].assignee : id \in DOMAIN sensors }

\* handle_reset_points, lines 829-836: the loop over users_to_reset
RECURSIVE reset_points_loop(_, _, _)
reset_points_loop(todo, acc, reset_total) ==
    IF todo = {} THEN acc
    ELSE LET assignee == CHOOSE x \in todo : TRUE
         IN  reset_points_loop(todo \ {assignee},
                [points |-> IF reset_total
                            THEN set_points(acc.points, assignee, 0)
                            ELSE acc.points,
                 points_earned |->
                     set_points_earned(acc.points_earned, assignee, 0),
                 points_missed |->
                     set_points_missed(acc.points_missed, assignee, 0)],
                reset_total)

handle_reset_points(user, reset_total) ==
    LET out == reset_points_loop(users_to_reset(user),
                   [points |-> points, points_earned |-> points_earned,
                    points_missed |-> points_missed],
                   reset_total)
    IN  /\ points' = out.points
        /\ points_earned' = out.points_earned
        /\ points_missed' = out.points_missed
        /\ last_op' = OpRecord("reset_points")
        /\ UNCHANGED loader_vars
        /\ UNCHANGED sensors
        /\ UNCHANGED privilege_vars
        /\ summary_sensors' =
               services_update_summary_sensors(summary_sensors, user,
                   sensors', points_earned', points_missed')

\* ChoreSensorManager.async_config_changed: the chore sensors, then the
\* privilege sensors, then the summary sensors
async_config_changed(config) ==
    LET ss == update_sensors_from_config(config, sensors)
        w == update_privilege_sensors(config, Privileges, ss, now)
    IN  /\ sensors' = ss
        /\ privilege_sensors' = w.privilege_sensors
        /\ privilege_states' = w.privilege_states
        /\ privilege_disable_until' = w.privilege_disable_until
        /\ summary_sensors' =
               update_summary_sensors(config, summary_sensors, ss,
                                      points_earned, points_missed)
        /\ last_op' = OpRecord("config_changed")
        /\ UNCHANGED loader_vars
        /\ UNCHANGED <<points, points_earned, points_missed, now>>

\* An async_enable that leaves the end time of a temporary disable standing
async_enable_keeping_timer(key) ==
    LET sensor == privilege_sensors[key]
    IN  /\ privilege_sensors' =
               [privilege_sensors EXCEPT ![key].state = PRIVILEGE_ENABLED]
        /\ privilege_states' =
               set_privilege_state(privilege_states, sensor.assignee,
                   sensor.privilege.slug, PRIVILEGE_ENABLED)
        /\ last_op' = OpRecord("enable")
        /\ UNCHANGED loader_vars
        /\ UNCHANGED <<sensors, summary_sensors, points, points_earned,
                       points_missed, now, privilege_disable_until>>

\* PrivilegeSensor.async_enable
async_enable(key) ==
    LET sensor == privilege_sensors[key]
    IN  /\ privilege_sensors' =
               [privilege_sensors EXCEPT
                   ![key] = [sensor EXCEPT !.state = PRIVILEGE_ENABLED,
                                           !.disable_until = None]]
        /\ privilege_disable_until' =
               set_privilege_disable_until(privilege_disable_until,
                   sensor.assignee, sensor.privilege.slug, None)
        /\ privilege_states' =
               set_privilege_state(privilege_states, sensor.assignee,
                   sensor.privilege.slug, PRIVILEGE_ENABLED)
        /\ last_op' = OpRecord("enable")
        /\ UNCHANGED loader_vars
        /\ UNCHANGED <<sensors, summary_sensors, points, points_earned,
                       points_missed, now>>

\* PrivilegeSensor.async_temporarily_disable
async_temporarily_disable(key, duration_minutes) ==
    LET sensor == privilege_sensors[key]
        until == Some(now + duration_minutes)
    IN  /\ privilege_sensors' =
               [privilege_sensors EXCEPT
                   ![key] = [sensor EXCEPT !.state = TEMPORARILY_DISABLED,
                                           !.disable_until = until]]
        /\ privilege_disable_until' =
               set_privilege_disable_until(privilege_disable_until,
                   sensor.assignee, sensor.privilege.slug, until)
        /\ privilege_states' =
               set_privilege_state(privilege_states, sensor.assignee,
                   sensor.privilege.slug, TEMPORARILY_DISABLED)
        /\ last_op' = OpRecord("temporarily_disable")
        /\ UNCHANGED loader_vars
        /\ UNCHANGED <<sensors, summary_sensors, points, points_earned,
                       points_missed, now>>

\* PrivilegeSensor.get_state
get_state(sensor) == sensor.state

\* PrivilegeSensor.async_disable
async_disable(key) ==
    LET sensor == privilege_sensors[key]
    IN  /\ privilege_sensors' =
               [privilege_sensors EXCEPT
                   ![key] = [sensor EXCEPT !.state = DISABLED,
                                           !.disable_until = None]]
        /\ privilege_disable_until' =
               set_privilege_disable_until(privilege_disable_until,
                   sensor.assignee, sensor.privilege.slug, None)
        /\ privilege_states' =
               set_privilege_state(privilege_states, sensor.assignee,
                   sensor.privilege.slug, DISABLED)
        /\ last_op' = OpRecord("disable")
        /\ UNCHANGED loader_vars
        /\ UNCHANGED <<sensors, summary_sensors, points, points_earned,
                       points_missed, now>>

\* The privilege sensors and the storage after
\* PrivilegeSensor.async_adjust_temporary_disable at time t
adjust_temporary_disable(w, key, adjustment_minutes, ss, t) ==
    LET sensor == w.privilege_sensors[key]
        moved == [sensor EXCEPT
                     !.disable_until = Some(@[1] + adjustment_minutes)]
    IN  IF sensor.state # TEMPORARILY_DISABLED THEN w
        ELSE IF sensor.disable_until = None THEN w
        ELSE IF moved.disable_until[1] <= t
        THEN check_and_update_state(
                 [w EXCEPT !.privilege_sensors[key] = moved], key, ss, t)
        ELSE [privilege_sensors |->
                 [w.privilege_sensors EXCEPT ![key] = moved],
              privilege_states |-> w.privilege_states,
              privilege_disable_until |->
                 set_privilege_disable_until(w.privilege_disable_until,
                     sensor.assignee, sensor.privilege.slug,
                     moved.disable_until)]

\* PrivilegeSensor.async_adjust_temporary_disable; the end time stays within
\* the modelled minutes
async_adjust_temporary_disable(key, adjustment_minutes) ==
    LET sensor == privilege_sensors[key]
        w == adjust_temporary_disable(Privileges, key, adjustment_minutes,
                                      sensors, now)
    IN  /\ IF sensor.disable_until = None
           THEN TRUE
           ELSE sensor.disable_until[1] + adjustment_minutes
                    \in 0..(MaxNow + 1)
        /\ privilege_sensors' = w.privilege_sensors
        /\ privilege_states' = w.privilege_states
        /\ privilege_disable_until' = w.privilege_disable_until
        /\ last_op' = OpRecord("adjust_temporary_disable")
        /\ UNCHANGED loader_vars
        /\ UNCHANGED <<sensors, summary_sensors, points, points_earned,
                       points_missed, now>>

\* PrivilegeSensor.async_update_from_chores
async_update_from_chores(key) ==
    LET w == check_and_update_state(Privileges, key, sensors, now)
    IN  /\ privilege_sensors' = w.privilege_sensors
        /\ privilege_states' = w.privilege_states
        /\ privilege_disable_until' = w.privilege_disable_until
        /\ last_op' = OpRecord("update_from_chores")
        /\ UNCHANGED loader_vars
        /\ UNCHANGED <<sensors, summary_sensors, points, points_earned,
                       points_missed, now>>

\* A minute passes.
Tick ==
    /\ now < MaxNow
    /\ now' = now + 1
    /\ UNCHANGED <<sensors, privilege_sensors, summary_sensors, points,
                   points_earned, points_missed, privilege_states,
                   privilege_disable_until, last_op>>
    /\ UNCHANGED loader_vars

(***************************************************************************)
(* config_loader.py and the validators of models.py.  A document is what   *)
(* yaml.safe_load makes of the file: the mapping [chores, privileges] of   *)
(* raw entries, or nothing when the text is not YAML.                      *)
(***************************************************************************)
NotYaml == [yaml_error |-> TRUE]

RawChore(slug, assignees, pts) ==
    [name |-> "Dishes", slug |-> slug, frequency |-> DAILY,
     assignees |-> assignees, points |-> pts]

RawPrivilege(slug, linked_chores, assignees) ==
    [name |-> "TV", slug |-> slug, behavior |-> AUTOMATIC,
     linked_chores |-> linked_chores, assignees |-> assignees]

Document(chores, privileges) == [chores |-> chores, privileges |-> privileges]

\* The documents the file is written with: valid ones, and ones that break
\* one rule each.
DISHES == <<"D">>
Documents ==
    { NotYaml,
      Document(<<>>, <<>>),
      Document(<<RawChore(dishes, <<Al, bo>>, 1)>>, <<>>),
      Document(<<RawChore(DISHES, <<bo>>, 2)>>,
               <<RawPrivilege(tv, <<dishes>>, <<Al>>)>>),
      Document(<<RawChore(dishes, <<Al>>, 1), RawChore(trash, <<bo>>, 0)>>,
               <<RawPrivilege(tv, <<>>, <<bo>>)>>),
      Document(<<RawChore(dishes, <<Al>>, 1), RawChore(DISHES, <<bo>>, 1)>>, <<>>),
      Document(<<RawChore(dishes, <<Al>>, 1)>>,
               <<RawPrivilege(tv, <<trash>>, <<Al>>)>>),
      Document(<<RawChore(DISHES, <<Al>>, 1)>>,
               <<RawPrivilege(tv, <<DISHES>>, <<Al>>)>>),
      Document(<<RawChore(dishes, <<>>, 1)>>, <<>>),
      Document(<<RawChore(dishes, <<Al>>, 1)>>,
               <<RawPrivilege(tv, <<>>, <<>>)>>),
      Document(<<RawChore(<<"-">>, <<Al>>, 1)>>, <<>>),
      Document(<<RawChore(<<"!">>, <<Al>>, 1)>>, <<>>),
      Document(<<RawChore(<<>>, <<Al>>, 1)>>, <<>>),
      Document(<<RawChore(dishes, <<Al>>, 0 - 1)>>, <<>>),
      Document(<<RawChore(dishes, <<Al>>, 1)>>,
               <<RawPrivilege(tv, <<>>, <<Al>>), RawPrivilege(<<"O">>, <<>>, <<bo>>)>>) }

\* ChoreConfig.validate_slug and PrivilegeConfig.validate_slug
validate_slug(v) == v # <<>> /\ sanitize_entity_id(v) # <<>>

\* ChoreConfig.validate_assignees and PrivilegeConfig.validate_assignees
validate_assignees(v) == v # <<>>

\* The field constraints of ChoreConfig (points has ge=0)
chore_is_valid(raw) ==
    /\ validate_slug(raw.slug)
    /\ validate_assignees(raw.assignees)
    /\ raw.frequency \in ChoreFrequency
    /\ raw.points >= 0

privilege_is_valid(raw) ==
    /\ validate_slug(raw.slug)
    /\ validate_assignees(raw.assignees)
    /\ raw.behavior \in PrivilegeBehavior

\* len(slugs) == len(set(slugs))
all_distinct(slugs) ==
    \A i, j \in DOMAIN slugs : i # j => slugs[i] # slugs[j]

\* A validator that accepts any list of chores
accept_any_slugs(chores) == TRUE

\* SimpleChoresConfig.validate_unique_chore_slugs, on the validated chores
validate_unique_chore_slugs(chores) ==
    all_distinct([i \in DOMAIN chores |-> chores[i].slug])

\* SimpleChoresConfig.validate_unique_privilege_slugs
validate_unique_privilege_slugs(privileges) ==
    all_distinct([i \in DOMAIN privileges |-> privileges[i].slug])

\* A validator that accepts any linked chores
accept_any_links(config) == TRUE

\* SimpleChoresConfig.validate_linked_chores_exist: the linked slugs are
\* compared as written with the stored (sanitized) chore slugs
validate_linked_chores_exist(config) ==
    LET chore_slugs == { config.chores[i].slug : i \in DOMAIN config.chores }
    IN  \A i \in DOMAIN config.privileges :
            \A j \in DOMAIN config.privileges[i].linked_chores :
                config.privileges[i].linked_chores[j] \in chore_slugs

\* The snapshot the constructors build from a document whose entries are
\* valid
build_config(doc) ==
    SimpleChoresConfig(
        [i \in DOMAIN doc.chores |->
            ChoreConfig(doc.chores[i].name, doc.chores[i].slug,
                        doc.chores[i].frequency, doc.chores[i].assignees,
                        doc.chores[i].points)],
        [i \in DOMAIN doc.privileges |->
            PrivilegeConfig(doc.privileges[i].name, doc.privileges[i].slug,
                            doc.privileges[i].behavior,
                            doc.privileges[i].linked_chores,
                            doc.privileges[i].assignees)])

\* yaml.safe_load and SimpleChoresConfig(**data) succeed
loads(doc) ==
    /\ doc # NotYaml
    /\ \A i \in DOMAIN doc.chores : chore_is_valid(doc.chores[i])
    /\ \A i \in DOMAIN doc.privileges : privilege_is_valid(doc.privileges[i])
    /\ validate_unique_chore_slugs(build_config(doc).chores)
    /\ validate_unique_privilege_slugs(build_config(doc).privileges)
    /\ validate_linked_chores_exist(build_config(doc))

\* ConfigLoader.async_load
async_load ==
    /\ IF file = None
       THEN /\ loader_config' = Some(SimpleChoresConfig(<<>>, <<>>))
            /\ loader_last_mtime' = None
            /\ load_result' = "loaded"
       ELSE IF loads(file[1])
       THEN /\ loader_config' = Some(build_config(file[1]))
            /\ loader_last_mtime' = Some(file_mtime)
            /\ load_result' = "loaded"
       ELSE /\ load_result' = "ConfigLoadError"
            /\ UNCHANGED <<loader_config, loader_last_mtime>>
    /\ notified' = <<>>
    /\ UNCHANGED <<file, file_mtime>>
    /\ UNCHANGED watcher_vars
    /\ UNCHANGED manager_vars

\* Somebody writes the configuration file, or deletes it.
WriteFile(doc) ==
    /\ file_mtime < MaxWrites
    /\ file' = Some(doc)
    /\ file_mtime' = file_mtime + 1
    /\ UNCHANGED <<loader_config, loader_last_mtime, load_result, notified>>
    /\ UNCHANGED watcher_vars
    /\ UNCHANGED manager_vars

DeleteFile ==
    /\ file # None
    /\ file' = None
    /\ UNCHANGED <<file_mtime, loader_config, loader_last_mtime, load_result,
                   notified>>
    /\ UNCHANGED watcher_vars
    /\ UNCHANGED manager_vars

(***************************************************************************)
(* config_loader.py: the file watcher and the chore editing methods.  The  *)
(* manager's async_config_changed is the registered callback.              *)
(***************************************************************************)
\* yaml.safe_dump(config.model_dump(mode="json")): the document that loads
\* back as the snapshot
dump(config) == Document(config.chores, config.privileges)

\* A lookup that finds nothing
no_chore_by_slug(config, slug) == None

\* SimpleChoresConfig.get_chore_by_slug: the first chore with that slug
get_chore_by_slug(config, slug) ==
    LET found == { i \in DOMAIN config.chores : config.chores[i].slug = slug }
    IN  IF found = {}
        THEN None
        ELSE Some(config.chores[CHOOSE i \in found : \A j \in found : i <= j])

\* ConfigLoader._check_for_changes
check_for_changes ==
    /\ file # None
    /\ IF loader_last_mtime = None
       THEN TRUE
       ELSE file_mtime > loader_last_mtime[1]

\* The callbacks: ChoreSensorManager.async_config_changed, which the sensor
\* platform registers, a callback that raises, and any other callback
ManagerCallback == "manager.async_config_changed"
RaisingCallback == "raises"
OtherCallback == "callback"

\* callback(self._config), for every callback of the list in its order
invocations(config) ==
    [i \in DOMAIN callbacks |-> [callback |-> callbacks[i], config |-> config]]

\* ConfigLoader._notify_callbacks run without interruption.  With
\* ChoreSensorManager.async_config_changed registered the chore sensors, the
\* privilege sensors and the summary sensors are reconciled; the exception
\* of a raising callback is caught and logged.
notify_callbacks(config) ==
    LET ss == update_sensors_from_config(config, sensors)
        w == update_privilege_sensors(config, Privileges, ss, now)
    IN  /\ IF \E i \in DOMAIN callbacks : callbacks[i] = ManagerCallback
           THEN /\ sensors' = ss
                /\ privilege_sensors' = w.privilege_sensors
                /\ privilege_states' = w.privilege_states
                /\ privilege_disable_until' = w.privilege_disable_until
                /\ summary_sensors' =
                       update_summary_sensors(config, summary_sensors, ss,
                                              points_earned, points_missed)
           ELSE UNCHANGED <<sensors, privilege_sensors, privilege_states,
                            privilege_disable_until, summary_sensors>>
        /\ notified' = invocations(config)
        /\ UNCHANGED <<points, points_earned, points_missed, now>>

no_callbacks ==
    /\ notified' = <<>>
    /\ UNCHANGED <<sensors, privilege_sensors, summary_sensors, points,
                   points_earned, points_missed, privilege_states,
                   privilege_disable_until, now>>

\* One round of ConfigLoader._watch_file: reload when the file is newer than
\* the last load, notify when the snapshot differs from the one before
watch_file ==
    /\ check_for_changes
    /\ IF loads(file[1])
       THEN /\ loader_config' = Some(build_config(file[1]))
            /\ loader_last_mtime' = Some(file_mtime)
            /\ load_result' = "loaded"
            /\ IF loader_config # Some(build_config(file[1]))
               THEN notify_callbacks(build_config(file[1]))
               ELSE no_callbacks
       ELSE /\ load_result' = "ConfigLoadError"
            /\ UNCHANGED <<loader_config, loader_last_mtime>>
            /\ no_callbacks
    /\ last_op' = OpRecord("watch_file")
    /\ UNCHANGED <<file, file_mtime>>
    /\ UNCHANGED watcher_vars

\* ConfigLoader.async_save(config), then _notify_callbacks
save_and_notify(new_config) ==
    /\ file_mtime < MaxWrites
    /\ file' = Some(dump(new_config))
    /\ file_mtime' = file_mtime + 1
    /\ loader_config' = Some(new_config)
    /\ loader_last_mtime' = Some(file_mtime + 1)
    /\ notify_callbacks(new_config)
    /\ UNCHANGED watcher_vars

\* The editing method raises ConfigLoadError (or the constructor raises):
\* nothing is saved
edit_raises ==
    /\ UNCHANGED <<file, file_mtime, loader_config, loader_last_mtime>>
    /\ no_callbacks
    /\ UNCHANGED watcher_vars

\* ConfigLoader.async_create_chore
async_create_chore(chore) ==
    /\ IF loader_config = None
       THEN edit_raises
       ELSE IF get_chore_by_slug(loader_config[1], chore.slug) # None
       THEN edit_raises
       ELSE save_and_notify(
                SimpleChoresConfig(Append(loader_config[1].chores, chore),
                                   <<>>))
    /\ last_op' = OpRecord("create_chore")
    /\ UNCHANGED load_result

\* ConfigLoader.async_update_chore: frequency and assignees are None to keep
\* the current value.  An unknown slug raises ConfigLoadError (line 326).
\* For a known slug the method reaches `ChoreConfig(**updated_data)` (line
\* 340), and ChoreConfig is not a name of the module: config_loader.py
\* imports SimpleChoresConfig only (line 14), so the call raises NameError
\* before a snapshot is built.  Every path leaves without saving.
async_update_chore(slug, frequency, assignees) ==
    /\ IF loader_config = None
       THEN edit_raises
       ELSE IF get_chore_by_slug(loader_config[1], slug) = None
       THEN edit_raises
       ELSE edit_raises
    /\ last_op' = OpRecord("update_chore")
    /\ UNCHANGED load_result

\* ConfigLoader.async_delete_chore
async_delete_chore(slug) ==
    /\ IF loader_config = None
       THEN edit_raises
       ELSE IF get_chore_by_slug(loader_config[1], slug) = None
       THEN edit_raises
       ELSE save_and_notify(
                SimpleChoresConfig(
                    SelectSeq(loader_config[1].chores,
                              LAMBDA c : c.slug # slug),
                    <<>>))
    /\ last_op' = OpRecord("delete_chore")
    /\ UNCHANGED load_result

(***************************************************************************)
(* services.py: handle_mark_complete as a coroutine of its own.  It is     *)
(* suspended in the storage save of add_points ("add_points") and of       *)
(* add_points_earned ("add_points_earned") for every sensor it awards, and *)
(* in the state updates after the loop ("gather").  It holds the sensor    *)
(* objects it has matched: `detached` keeps the ones a reconciliation has  *)
(* taken out of the manager's dict in the meantime.                        *)
(***************************************************************************)
\* The sensors a reconciliation removes from the dict while the handler in
\* flight still holds them
keep_detached(before, after) ==
    IF in_flight = None
    THEN None
    ELSE IF "detached" \notin DOMAIN in_flight[1]
    THEN in_flight
    ELSE LET call == in_flight[1]
             gone == (call.todo \cap DOMAIN before) \ DOMAIN after
         IN  Some([call EXCEPT
                      !.detached =
                          [id \in DOMAIN call.detached \cup gone |->
                              IF id \in DOMAIN call.detached
                              THEN call.detached[id]
                              ELSE before[id]]])

\* The for-loop of handle_mark_complete, lines 228-255, from one suspension
\* to the next: sensors that are COMPLETE already are passed, the first
\* other one is set COMPLETE and add_points adds its points and waits for
\* the storage
RECURSIVE run_mark_complete(_)
run_mark_complete(acc) ==
    IF acc.todo = {}
    THEN [acc EXCEPT !.pc = "gather"]
    ELSE LET id == CHOOSE x \in acc.todo : TRUE
             held == id \in DOMAIN acc.detached
             sensor == IF held THEN acc.detached[id] ELSE acc.sensors[id]
             marked ==
                 IF held
                 THEN [acc EXCEPT !.detached[id].state = COMPLETE,
                                  !.todo = @ \ {id}]
                 ELSE [acc EXCEPT !.sensors[id].state = COMPLETE,
                                  !.todo = @ \ {id}]
         IN  IF awards_points(sensor)
             THEN [marked EXCEPT
                      !.pc = "add_points",
                      !.assignee = sensor.assignee,
                      !.chore_points = sensor.chore.points,
                      !.points = add_points(@, sensor.assignee,
                                            sensor.chore.points)]
             ELSE run_mark_complete(marked)

\* The locals of the handler at a suspension
suspended(out, affected_users) ==
    Some([pc |-> out.pc, todo |-> out.todo, detached |-> out.detached,
          assignee |-> out.assignee, chore_points |-> out.chore_points,
          affected_users |-> affected_users])

\* handle_mark_complete up to its first suspension
mark_complete_begins(user, chore_slug) ==
    LET matching_sensors == find_matching_sensors(sensors, chore_slug, user)
        out == run_mark_complete(
                   [sensors |-> sensors, detached |-> <<>>, points |-> points,
                    todo |-> matching_sensors, pc |-> "gather",
                    assignee |-> <<>>, chore_points |-> 0])
    IN  /\ in_flight = None
        /\ IF matching_sensors = {}
           THEN UNCHANGED <<sensors, points, in_flight>>
           ELSE /\ InBounds(out.points)
                /\ sensors' = out.sensors
                /\ points' = out.points
                /\ in_flight' =
                       suspended(out, { sensors[id].assignee :
                                           id \in matching_sensors })
        /\ last_op' = OpRecord("mark_complete")
        /\ UNCHANGED <<points_earned, points_missed, summary_sensors>>
        /\ UNCHANGED privilege_vars
        /\ UNCHANGED <<file, file_mtime, loader_config, loader_last_mtime,
                       load_result, notified, callbacks, watch_task, tasks,
                       stopping>>

\* handle_mark_complete from one suspension to the next, or to its end: the
\* summary sensors of the affected users are refreshed last (lines 257-274)
mark_complete_resumes ==
    /\ in_flight # None
    /\ in_flight[1].pc \in {"add_points", "add_points_earned", "gather"}
    /\ LET call == in_flight[1]
           out == run_mark_complete(
                      [sensors |-> sensors, detached |-> call.detached,
                       points |-> points, todo |-> call.todo, pc |-> "gather",
                       assignee |-> <<>>, chore_points |-> 0])
       IN  IF call.pc = "add_points"
           THEN /\ points_earned' =
                       add_points_earned(points_earned, call.assignee,
                                         call.chore_points)
                /\ InBounds(points_earned')
                /\ in_flight' = Some([call EXCEPT !.pc = "add_points_earned"])
                /\ UNCHANGED <<sensors, points, summary_sensors>>
           ELSE IF call.pc = "add_points_earned"
           THEN /\ InBounds(out.points)
                /\ sensors' = out.sensors
                /\ points' = out.points
                /\ in_flight' = suspended(out, call.affected_users)
                /\ UNCHANGED <<points_earned, summary_sensors>>
           ELSE /\ summary_sensors' =
                       update_affected_users(call.affected_users,
                                             summary_sensors, sensors,
                                             points_earned, points_missed)
                /\ in_flight' = None
                /\ UNCHANGED <<sensors, points, points_earned>>
    /\ last_op' = OpRecord("mark_complete")
    /\ UNCHANGED points_missed
    /\ UNCHANGED privilege_vars
    /\ UNCHANGED <<file, file_mtime, loader_config, loader_last_mtime,
                   load_result, notified, callbacks, watch_task, tasks,
                   stopping>>

(***************************************************************************)
(* services.py: handle_mark_complete and handle_mark_pending calls that    *)
(* run at the same time.  Nothing serializes the service calls: a call     *)
(* runs until it is suspended in a storage save or in the state updates,   *)
(* and any other call may begin or go on in between.  in_flight lists the  *)
(* calls that have begun and not ended.                                    *)
(***************************************************************************)
\* The for-loop of handle_mark_pending, lines 307-334, from one suspension
\* to the next: sensors that are not COMPLETE are set PENDING and passed,
\* the first COMPLETE one is set PENDING and add_points takes its points
\* back and waits for the storage
RECURSIVE run_mark_pending(_)
run_mark_pending(acc) ==
    IF acc.todo = {}
    THEN [acc EXCEPT !.pc = "gather"]
    ELSE LET id == CHOOSE x \in acc.todo : TRUE
             sensor == acc.sensors[id]
             marked == [acc EXCEPT !.sensors[id].state = PENDING,
                                   !.todo = @ \ {id}]
         IN  IF deducts_points(sensor)
             THEN [marked EXCEPT
                      !.pc = "add_points",
                      !.assignee = sensor.assignee,
                      !.chore_points = -sensor.chore.points,
                      !.points = add_points(@, sensor.assignee,
                                            -sensor.chore.points)]
             ELSE run_mark_pending(marked)

\* The loop of either handler
run_mark(service, acc) ==
    IF service = "mark_complete" THEN run_mark_complete(acc)
    ELSE run_mark_pending(acc)

\* The locals of a call at a suspension
suspended_call(service, out, affected_users) ==
    [service |-> service, pc |-> out.pc, todo |-> out.todo,
     assignee |-> out.assignee, chore_points |-> out.chore_points,
     affected_users |-> affected_users]

\* The sequence without its i-th element
without(seq, i) == SubSeq(seq, 1, i - 1) \o SubSeq(seq, i + 1, Len(seq))

\* handle_mark_complete or handle_mark_pending up to its first suspension,
\* while other calls are suspended
mark_call_begins(service, user, chore_slug) ==
    LET matching_sensors == find_matching_sensors(sensors, chore_slug, user)
        out == run_mark(service,
                   [sensors |-> sensors, detached |-> <<>>, points |-> points,
                    todo |-> matching_sensors, pc |-> "gather",
                    assignee |-> <<>>, chore_points |-> 0])
    IN  /\ Len(in_flight) < MaxCalls
        /\ IF matching_sensors = {}
           THEN UNCHANGED <<sensors, points, in_flight>>
           ELSE /\ InBounds(out.points)
                /\ sensors' = out.sensors
                /\ points' = out.points
                /\ in_flight' =
                       Append(in_flight,
                           suspended_call(service, out,
                               { sensors[id].assignee :
                                   id \in matching_sensors }))
        /\ last_op' = OpRecord(service)
        /\ UNCHANGED <<points_earned, points_missed, summary_sensors>>
        /\ UNCHANGED privilege_vars
        /\ UNCHANGED <<file, file_mtime, loader_config, loader_last_mtime,
                       load_result, notified, callbacks, watch_task, tasks,
                       stopping>>

\* The i-th call in flight from one suspension to the next, or to its end
mark_call_resumes(i) ==
    /\ i \in DOMAIN in_flight
    /\ in_flight[i].service \in {"mark_complete", "mark_pending"}
    /\ LET call == in_flight[i]
           out == run_mark(call.service,
                      [sensors |-> sensors, detached |-> <<>>,
                       points |-> points, todo |-> call.todo, pc |-> "gather",
                       assignee |-> <<>>, chore_points |-> 0])
       IN  /\ IF call.pc = "add_points"
              THEN /\ points_earned' =
                          add_points_earned(points_earned, call.assignee,
                                            call.chore_points)
                   /\ InBounds(points_earned')
                   /\ in_flight' =
                          [in_flight EXCEPT ![i].pc = "add_points_earned"]
                   /\ UNCHANGED <<sensors, points, summary_sensors>>
              ELSE IF call.pc = "add_points_earned"
              THEN /\ InBounds(out.points)
                   /\ sensors' = out.sensors
                   /\ points' = out.points
                   /\ in_flight' =
                          [in_flight EXCEPT
                              ![i] = suspended_call(call.service, out,
                                                    call.affected_users)]
                   /\ UNCHANGED <<points_earned, summary_sensors>>
              ELSE /\ summary_sensors' =
                          update_affected_users(call.affected_users,
                                                summary_sensors, sensors,
                                                points_earned, points_missed)
                   /\ in_flight' = without(in_flight, i)
                   /\ UNCHANGED <<sensors, points, points_earned>>
           /\ last_op' = OpRecord(call.service)
    /\ UNCHANGED points_missed
    /\ UNCHANGED privilege_vars
    /\ UNCHANGED <<file, file_mtime, loader_config, loader_last_mtime,
                   load_result, notified, callbacks, watch_task, tasks,
                   stopping>>

(***************************************************************************)
(* services.py: handle_start_new_day as a coroutine of its own.  The first *)
(* loop takes the statistics (lines 497-513), the call is suspended in the *)
(* storage save of add_points_missed for every assignee with missed points *)
(* (lines 516-522, "add_points_missed"), the second loop collects and      *)
(* applies the state changes (lines 535-564) and the call is suspended in  *)
(* the state updates (line 576, "gather").  The record of a call keeps, as *)
(* its history, the sensors its first loop counted as missed and the       *)
(* sensors its second loop reset.                                          *)
(***************************************************************************)
\* The sensors the first loop counts as missed
counted_as_missed(user, ss) ==
    { id \in DOMAIN ss : in_filter(user, id) /\ counts_as_missed(ss[id]) }

\* The sensors the second loop resets
reset_from_complete(user, ss) ==
    { id \in DOMAIN ss :
        in_filter(user, id) /\ new_day_state(ss[id]) # ss[id].state }

\* The call waits in add_points_missed for the assignee: the counter has
\* been raised already
new_day_accrues(user, stats, todo, counted) ==
    [service |-> "start_new_day", pc |-> "add_points_missed", user |-> user,
     stats |-> stats, todo |-> todo, counted |-> counted, reset |-> {},
     affected_users |-> {}]

\* The second loop has run: the call waits in the state updates
new_day_resets(call, ss) ==
    [call EXCEPT !.pc = "gather", !.todo = {},
                 !.reset = reset_from_complete(call.user, ss),
                 !.affected_users = new_day_affected_users(call.user, ss)]

\* handle_start_new_day up to its first suspension
start_new_day_begins(user) ==
    LET stats == assignee_stats(user, sensors)
        awaited == { a \in DOMAIN stats : stats[a] > 0 }
        a == CHOOSE x \in awaited : TRUE
        counted == counted_as_missed(user, sensors)
        call == new_day_accrues(user, stats, awaited \ {a}, counted)
    IN  /\ Len(in_flight) < MaxCalls
        /\ IF awaited # {}
           THEN /\ points_missed' = add_points_missed(points_missed, a, stats[a])
                /\ InBounds(points_missed')
                /\ in_flight' = Append(in_flight, call)
                /\ UNCHANGED <<sensors, summary_sensors>>
           ELSE /\ sensors' = new_day_sensors(user, sensors)
                /\ UNCHANGED points_missed
                /\ IF reset_from_complete(user, sensors) # {}
                   THEN /\ in_flight' =
                               Append(in_flight,
                                   new_day_resets(
                                       new_day_accrues(user, stats, {}, counted),
                                       sensors))
                        /\ UNCHANGED summary_sensors
                   ELSE /\ summary_sensors' =
                               update_affected_users(
                                   new_day_affected_users(user, sensors),
                                   summary_sensors, sensors', points_earned,
                                   points_missed)
                        /\ UNCHANGED in_flight
        /\ last_op' = OpRecord("start_new_day")
        /\ UNCHANGED <<points, points_earned>>
        /\ UNCHANGED privilege_vars
        /\ UNCHANGED <<file, file_mtime, loader_config, loader_last_mtime,
                       load_result, notified, callbacks, watch_task, tasks,
                       stopping>>

\* The i-th call in flight, a handle_start_new_day, from one suspension to
\* the next, or to its end
start_new_day_resumes(i) ==
    /\ i \in DOMAIN in_flight
    /\ in_flight[i].service = "start_new_day"
    /\ LET call == in_flight[i]
           a == CHOOSE x \in call.todo : TRUE
       IN  IF call.pc = "add_points_missed" /\ call.todo # {}
           THEN /\ points_missed' =
                       add_points_missed(points_missed, a, call.stats[a])
                /\ InBounds(points_missed')
                /\ in_flight' = [in_flight EXCEPT ![i].todo = @ \ {a}]
                /\ UNCHANGED <<sensors, summary_sensors>>
           ELSE IF call.pc = "add_points_missed"
           THEN /\ sensors' = new_day_sensors(call.user, sensors)
                /\ UNCHANGED points_missed
                /\ IF reset_from_complete(call.user, sensors) # {}
                   THEN /\ in_flight' =
                               [in_flight EXCEPT
                                   ![i] = new_day_resets(call, sensors)]
                        /\ UNCHANGED summary_sensors
                   ELSE /\ summary_sensors' =
                               update_affected_users(
                                   new_day_affected_users(call.user, sensors),
                                   summary_sensors, sensors', points_earned,
                                   points_missed)
                        /\ in_flight' = without(in_flight, i)
           ELSE /\ summary_sensors' =
                       update_affected_users(call.affected_users,
                           summary_sensors, sensors, points_earned,
                           points_missed)
                /\ in_flight' = without(in_flight, i)
                /\ UNCHANGED <<sensors, points_missed>>
    /\ last_op' = OpRecord("start_new_day")
    /\ UNCHANGED <<points, points_earned>>
    /\ UNCHANGED privilege_vars
    /\ UNCHANGED <<file, file_mtime, loader_config, loader_last_mtime,
                   load_result, notified, callbacks, watch_task, tasks,
                   stopping>>

(***************************************************************************)
(* config_loader.py: the poll loop as a task of its own.  A task is        *)
(* suspended in asyncio.sleep ("sleep"), in the stat of _check_for_changes *)
(* ("stat"), in the read of async_load ("read") or inside the callback it  *)
(* has invoked ("callback"); "done" is the finished task.  What runs       *)
(* between two suspensions is one step.                                    *)
(***************************************************************************)
\* asyncio.create_task(self._watch_file()): the new task is about to sleep.
\* old_config is the local of the round, invoked lists the callback
\* invocations of the round and completed counts the ones that returned or
\* raised, cancelled is a task.cancel() not yet delivered, aborted is where
\* the CancelledError was delivered.
create_task ==
    [pc |-> "sleep", old_config |-> None, invoked |-> <<>>, completed |-> 0,
     cancelled |-> FALSE, aborted |-> "none"]

\* The tasks that have not finished
running_tasks == { t \in DOMAIN tasks : tasks[t].pc # "done" }

\* A comparison that calls every reloaded snapshot new
always_changed(old_config, new_config) == TRUE

\* _watch_file, line 180: old_config != self._config
config_changed(old_config, new_config) == old_config # new_config

\* A loader without the test of line 193
never_watching(task) == FALSE

\* async_start_watching, line 193: self._watch_task is not None
already_watching(task) == task # None

\* What the loop leaves alone while it checks and loads
loop_leaves_manager ==
    /\ last_op' = OpRecord("watch_file")
    /\ UNCHANGED <<sensors, privilege_sensors, summary_sensors, points,
                   points_earned, points_missed, privilege_states,
                   privilege_disable_until, now>>

\* ChoreSensorManager.async_config_changed as a callback that has returned
callback_returns(callback, config) ==
    LET ss == update_sensors_from_config(config, sensors)
        w == update_privilege_sensors(config, Privileges, ss, now)
    IN  IF callback = ManagerCallback
        THEN /\ sensors' = ss
             /\ privilege_sensors' = w.privilege_sensors
             /\ privilege_states' = w.privilege_states
             /\ privilege_disable_until' = w.privilege_disable_until
             /\ summary_sensors' =
                    update_summary_sensors(config, summary_sensors, ss,
                                           points_earned, points_missed)
        ELSE UNCHANGED <<sensors, privilege_sensors, privilege_states,
                         privilege_disable_until, summary_sensors>>

\* ConfigLoader.register_callback
register_callback(callback) ==
    /\ Len(callbacks) < MaxCallbacks
    /\ callbacks' = Append(callbacks, callback)
    /\ last_op' = OpRecord("register_callback")
    /\ UNCHANGED <<file, file_mtime, loader_config, loader_last_mtime,
                   load_result, notified, watch_task, tasks, stopping, in_flight>>
    /\ UNCHANGED <<sensors, privilege_sensors, summary_sensors, points,
                   points_earned, points_missed, privilege_states,
                   privilege_disable_until, now>>

\* ConfigLoader.async_start_watching
async_start_watching ==
    /\ IF already_watching(watch_task)
       THEN UNCHANGED <<watch_task, tasks>>
       ELSE /\ Len(tasks) < MaxTasks
            /\ tasks' = Append(tasks, create_task)
            /\ watch_task' = Some(Len(tasks) + 1)
    /\ last_op' = OpRecord("start_watching")
    /\ UNCHANGED <<file, file_mtime, loader_config, loader_last_mtime,
                   load_result, notified, callbacks, stopping, in_flight>>
    /\ UNCHANGED <<sensors, privilege_sensors, summary_sensors, points,
                   points_earned, points_missed, privilege_states,
                   privilege_disable_until, now>>

\* ConfigLoader.async_stop_watching up to `await self._watch_task`: the task
\* is cancelled.  One call is in flight at a time.
async_stop_watching ==
    /\ stopping = None
    /\ IF watch_task = None
       THEN UNCHANGED <<tasks, stopping>>
       ELSE /\ tasks' = [tasks EXCEPT ![watch_task[1]].cancelled = TRUE]
            /\ stopping' = watch_task
    /\ last_op' = OpRecord("stop_watching")
    /\ UNCHANGED <<file, file_mtime, loader_config, loader_last_mtime,
                   load_result, notified, callbacks, watch_task, in_flight>>
    /\ UNCHANGED <<sensors, privilege_sensors, summary_sensors, points,
                   points_earned, points_missed, privilege_states,
                   privilege_disable_until, now>>

\* ConfigLoader.async_stop_watching from the end of the task on
async_stop_watching_returns ==
    /\ stopping # None
    /\ tasks[stopping[1]].pc = "done"
    /\ watch_task' = None
    /\ stopping' = None
    /\ last_op' = OpRecord("stop_watching_returns")
    /\ UNCHANGED <<file, file_mtime, loader_config, loader_last_mtime,
                   load_result, notified, callbacks, tasks, in_flight>>
    /\ UNCHANGED <<sensors, privilege_sensors, summary_sensors, points,
                   points_earned, points_missed, privilege_states,
                   privilege_disable_until, now>>

\* The task.cancel() of async_stop_watching is delivered: CancelledError is
\* raised where the task is suspended, no `except Exception` on its way
\* catches it, and line 185 ends the loop.  A callback it is raised in never
\* returns; async_config_changed is suspended either before it has changed
\* an entity map (sensor.py line 223) or after it has changed them all (line
\* 339).
watch_file_cancelled(t) ==
    /\ tasks[t].pc # "done"
    /\ tasks[t].cancelled
    /\ tasks' = [tasks EXCEPT ![t].pc = "done", ![t].aborted = tasks[t].pc,
                              ![t].cancelled = FALSE]
    /\ IF tasks[t].pc = "callback"
       THEN \E reconciled \in BOOLEAN :
                LET last == tasks[t].invoked[Len(tasks[t].invoked)]
                IN  IF reconciled
                    THEN callback_returns(last.callback, last.config)
                    ELSE UNCHANGED <<sensors, privilege_sensors,
                                     privilege_states, privilege_disable_until,
                                     summary_sensors>>
       ELSE UNCHANGED <<sensors, privilege_sensors, privilege_states,
                        privilege_disable_until, summary_sensors>>
    /\ last_op' = OpRecord("watch_file")
    /\ UNCHANGED <<points, points_earned, points_missed, now>>
    /\ in_flight' = keep_detached(sensors, sensors')
    /\ UNCHANGED <<file, file_mtime, loader_config, loader_last_mtime,
                   load_result, notified, callbacks, watch_task, stopping>>

\* _watch_file after asyncio.sleep(5): _check_for_changes finds the file and
\* asks for its modification time
watch_file_sleep(t) ==
    /\ tasks[t].pc = "sleep"
    /\ ~tasks[t].cancelled
    /\ file # None
    /\ tasks' = [tasks EXCEPT ![t].pc = "stat", ![t].invoked = <<>>,
                              ![t].completed = 0]
    /\ UNCHANGED <<file, file_mtime, loader_config, loader_last_mtime,
                   load_result, notified, callbacks, watch_task, stopping,
                   in_flight>>
    /\ loop_leaves_manager

\* _check_for_changes returns; when the file is newer than the marker,
\* _watch_file keeps old_config and async_load asks for the file's text
watch_file_check(t) ==
    /\ tasks[t].pc = "stat"
    /\ ~tasks[t].cancelled
    /\ tasks' = IF check_for_changes
                THEN [tasks EXCEPT ![t].pc = "read",
                                   ![t].old_config = loader_config]
                ELSE [tasks EXCEPT ![t].pc = "sleep"]
    /\ UNCHANGED <<file, file_mtime, loader_config, loader_last_mtime,
                   load_result, notified, callbacks, watch_task, stopping,
                   in_flight>>
    /\ loop_leaves_manager

\* A loop that a failed reload ends
reload_failure_ends_loop == "done"

\* _watch_file, lines 182-184: the ConfigLoadError of the reload is logged
\* and the loop sleeps again
reload_failed == "sleep"

\* async_load returns or raises; when the snapshot has changed,
\* _notify_callbacks invokes the first callback
watch_file_load(t) ==
    /\ tasks[t].pc = "read"
    /\ ~tasks[t].cancelled
    /\ IF file # None /\ loads(file[1])
       THEN LET new_config == build_config(file[1])
            IN  /\ loader_config' = Some(new_config)
                /\ loader_last_mtime' = Some(file_mtime)
                /\ load_result' = "loaded"
                /\ tasks' =
                       IF /\ config_changed(tasks[t].old_config, Some(new_config))
                          /\ callbacks # <<>>
                       THEN [tasks EXCEPT
                                ![t].pc = "callback",
                                ![t].old_config = None,
                                ![t].invoked =
                                    <<[callback |-> callbacks[1],
                                       config |-> new_config]>>]
                       ELSE [tasks EXCEPT ![t].pc = "sleep",
                                          ![t].old_config = None]
       ELSE /\ load_result' = "ConfigLoadError"
            /\ tasks' = [tasks EXCEPT ![t].pc = reload_failed,
                                      ![t].old_config = None]
            /\ UNCHANGED <<loader_config, loader_last_mtime>>
    /\ UNCHANGED <<file, file_mtime, notified, callbacks, watch_task,
                   stopping, in_flight>>
    /\ loop_leaves_manager

\* A loop that a raising callback takes the remaining callbacks from
none_after_raise(callback, i) ==
    IF callback = RaisingCallback THEN {} ELSE { j \in DOMAIN callbacks : j > i }

\* _notify_callbacks, lines 132-139: the callbacks still to be invoked when
\* callback number i has returned or raised
remaining_callbacks(callback, i) == { j \in DOMAIN callbacks : j > i }

\* The callback the loop is waiting for returns, or raises an exception
\* that line 138 catches; _notify_callbacks invokes the next callback with
\* self._config, and after the last one the loop sleeps again
watch_file_callback(t) ==
    LET i == Len(tasks[t].invoked)
    IN  /\ tasks[t].pc = "callback"
        /\ ~tasks[t].cancelled
        /\ IF tasks[t].invoked[i].callback = RaisingCallback
           THEN UNCHANGED <<sensors, privilege_sensors, privilege_states,
                            privilege_disable_until, summary_sensors>>
           ELSE callback_returns(tasks[t].invoked[i].callback,
                                 tasks[t].invoked[i].config)
        /\ tasks' =
               IF remaining_callbacks(tasks[t].invoked[i].callback, i) # {}
               THEN [tasks EXCEPT
                        ![t].completed = i,
                        ![t].invoked =
                            Append(tasks[t].invoked,
                                   [callback |-> callbacks[i + 1],
                                    config |-> loader_config[1]])]
               ELSE [tasks EXCEPT ![t].completed = i, ![t].pc = "sleep"]
        /\ in_flight' = keep_detached(sensors, sensors')
        /\ UNCHANGED <<file, file_mtime, loader_config, loader_last_mtime,
                       load_result, notified, callbacks, watch_task,
                       stopping>>
        /\ last_op' = OpRecord("watch_file")
        /\ UNCHANGED <<points, points_earned, points_missed, now>>

(***************************************************************************)
(* config_loader.py: async_load inside the poll loop as two steps.  The    *)
(* text of the file is read in an executor job (lines 85-88), and the      *)
(* modification time is asked for when the coroutine goes on (line 92):    *)
(* another process may write the file in between.  "read" is the task      *)
(* waiting for the text, "marker" the task that has the text and is about  *)
(* to parse it and to record the modification time.                        *)
(***************************************************************************)
\* Another process replaces the file; the modification time it leaves may be
\* any time, not only a later one (a restored copy, a clock set back)
RewriteFile(doc, mtime) ==
    /\ file' = Some(doc)
    /\ file_mtime' = mtime
    /\ UNCHANGED <<loader_config, loader_last_mtime, load_result, notified>>
    /\ UNCHANGED watcher_vars
    /\ UNCHANGED manager_vars

\* The task with the text it has read
with_content(task, content) ==
    [f \in DOMAIN task \cup {"content"} |->
        IF f = "content" THEN content ELSE task[f]]

\* The executor job returns the text of the file, or raises when the file
\* is gone
watch_file_read(t) ==
    /\ tasks[t].pc = "read"
    /\ ~tasks[t].cancelled
    /\ IF file # None
       THEN /\ tasks' = [tasks EXCEPT
                            ![t] = with_content([@ EXCEPT !.pc = "marker"],
                                                file)]
            /\ UNCHANGED load_result
       ELSE /\ tasks' = [tasks EXCEPT ![t].pc = reload_failed,
                                      ![t].old_config = None]
            /\ load_result' = "ConfigLoadError"
    /\ UNCHANGED <<file, file_mtime, loader_config, loader_last_mtime,
                   notified, callbacks, watch_task, stopping, in_flight>>
    /\ loop_leaves_manager

\* async_load goes on with the text: lines 90-92 build the snapshot, assign
\* it and record the modification time the file has now; a file that is gone
\* by now makes stat() raise after the snapshot was assigned.  Then
\* _watch_file compares and notifies.
watch_file_marker(t) ==
    /\ tasks[t].pc = "marker"
    /\ ~tasks[t].cancelled
    /\ LET content == tasks[t].content[1]
           new_config == build_config(content)
           task == with_content(tasks[t], None)
       IN  IF loads(content)
           THEN /\ loader_config' = Some(new_config)
                /\ IF file # None
                   THEN /\ loader_last_mtime' = Some(file_mtime)
                        /\ load_result' = "loaded"
                        /\ tasks' =
                               IF /\ config_changed(tasks[t].old_config,
                                                    Some(new_config))
                                  /\ callbacks # <<>>
                               THEN [tasks EXCEPT
                                        ![t] = [task EXCEPT
                                            !.pc = "callback",
                                            !.old_config = None,
                                            !.invoked =
                                                <<[callback |-> callbacks[1],
                                                   config |-> new_config]>>]]
                               ELSE [tasks EXCEPT
                                        ![t] = [task EXCEPT
                                            !.pc = "sleep",
                                            !.old_config = None]]
                   ELSE /\ load_result' = "ConfigLoadError"
                        /\ tasks' = [tasks EXCEPT
                                        ![t] = [task EXCEPT
                                            !.pc = reload_failed,
                                            !.old_config = None]]
                        /\ UNCHANGED loader_last_mtime
           ELSE /\ load_result' = "ConfigLoadError"
                /\ tasks' = [tasks EXCEPT
                                ![t] = [task EXCEPT !.pc = reload_failed,
                                                    !.old_config = None]]
                /\ UNCHANGED <<loader_config, loader_last_mtime>>
    /\ UNCHANGED <<file, file_mtime, notified, callbacks, watch_task,
                   stopping, in_flight>>
    /\ loop_leaves_manager

(***************************************************************************)
(* config_loader.py: an editing method as a coroutine of its own.  It is   *)
(* suspended in the write of async_save ("write": the executor has not yet *)
(* written; "written": it has, and the coroutine has not yet resumed) and  *)
(* in the stat of async_save ("stat").                                     *)
(***************************************************************************)
\* What the steps of an editing method leave alone before it notifies
save_leaves_manager ==
    UNCHANGED <<sensors, privilege_sensors, summary_sensors, points,
                points_earned, points_missed, privilege_states,
                privilege_disable_until, now>>

\* ConfigLoader.async_create_chore up to the write of async_save
create_chore_begins(chore) ==
    /\ in_flight = None
    /\ file_mtime < MaxWrites
    /\ in_flight' =
           IF loader_config = None
           THEN None
           ELSE IF get_chore_by_slug(loader_config[1], chore.slug) # None
           THEN None
           ELSE Some([pc |-> "write",
                      config |->
                          SimpleChoresConfig(
                              Append(loader_config[1].chores, chore), <<>>)])
    /\ last_op' = OpRecord("create_chore")
    /\ UNCHANGED <<file, file_mtime, loader_config, loader_last_mtime,
                   load_result, notified, callbacks, watch_task, tasks,
                   stopping>>
    /\ save_leaves_manager

\* ConfigLoader.async_delete_chore up to the write of async_save
delete_chore_begins(slug) ==
    /\ in_flight = None
    /\ file_mtime < MaxWrites
    /\ in_flight' =
           IF loader_config = None
           THEN None
           ELSE IF get_chore_by_slug(loader_config[1], slug) = None
           THEN None
           ELSE Some([pc |-> "write",
                      config |->
                          SimpleChoresConfig(
                              SelectSeq(loader_config[1].chores,
                                        LAMBDA c : c.slug # slug),
                              <<>>)])
    /\ last_op' = OpRecord("delete_chore")
    /\ UNCHANGED <<file, file_mtime, loader_config, loader_last_mtime,
                   load_result, notified, callbacks, watch_task, tasks,
                   stopping>>
    /\ save_leaves_manager

\* async_save, lines 244-248: the executor writes the file
async_save_write ==
    /\ in_flight # None
    /\ in_flight[1].pc = "write"
    /\ file' = Some(dump(in_flight[1].config))
    /\ file_mtime' = file_mtime + 1
    /\ in_flight' = Some([in_flight[1] EXCEPT !.pc = "written"])
    /\ last_op' = OpRecord("async_save")
    /\ UNCHANGED <<loader_config, loader_last_mtime, load_result, notified,
                   callbacks, watch_task, tasks, stopping>>
    /\ save_leaves_manager

\* async_save, lines 251-254: self._config = config, and the executor is
\* asked for the modification time
async_save_written ==
    /\ in_flight # None
    /\ in_flight[1].pc = "written"
    /\ loader_config' = Some(in_flight[1].config)
    /\ in_flight' = Some([in_flight[1] EXCEPT !.pc = "stat"])
    /\ last_op' = OpRecord("async_save")
    /\ UNCHANGED <<file, file_mtime, loader_last_mtime, load_result, notified,
                   callbacks, watch_task, tasks, stopping>>
    /\ save_leaves_manager

\* async_save, line 252: self._last_mtime is assigned; the editing method
\* goes on with _notify_callbacks
async_save_stat ==
    /\ in_flight # None
    /\ in_flight[1].pc = "stat"
    /\ loader_last_mtime' = Some(file_mtime)
    /\ notify_callbacks(loader_config[1])
    /\ in_flight' = None
    /\ last_op' = OpRecord("async_save")
    /\ UNCHANGED <<file, file_mtime, loader_config, load_result, callbacks,
                   watch_task, tasks, stopping>>

(***************************************************************************)
(* The specifications                                                      *)
(***************************************************************************)
\* ChoreSensorManager.async_setup on a fresh installation: the storage is
\* empty, and the sensors are created from the loaded configuration.
async_setup(config) ==
    LET ss == create_sensors_from_config(config, <<>>)
        empty == [privilege_sensors |-> <<>>, privilege_states |-> <<>>,
                  privilege_disable_until |-> <<>>]
        w == create_privilege_sensors(config, empty, ss, 0)
    IN  /\ sensors = ss
        /\ privilege_sensors = w.privilege_sensors
        /\ privilege_states = w.privilege_states
        /\ privilege_disable_until = w.privilege_disable_until
        /\ summary_sensors =
               update_summary_sensors(config, <<>>, ss, <<>>, <<>>)
        /\ points = <<>>
        /\ points_earned = <<>>
        /\ points_missed = <<>>
        /\ now = 0
        /\ last_op = [name |-> "setup", again |-> FALSE]
        /\ file = Some(config)
        /\ file_mtime = 0
        /\ loader_config = Some(config)
        /\ loader_last_mtime = Some(0)
        /\ load_result = "loaded"
        /\ callbacks = <<ManagerCallback>>
        /\ notified = <<>>
        /\ watch_task = Some(1)
        /\ tasks = <<create_task>>
        /\ stopping = None
        /\ in_flight = None

\* The chore services on a fixed configuration
Init == \E config \in SetupConfigs : async_setup(config)

Next ==
    \/ \E user \in Users, chore_slug \in Slugs : handle_mark_complete(user, chore_slug)
    \/ \E user \in Users, chore_slug \in Slugs : handle_mark_pending(user, chore_slug)
    \/ \E user \in Users, chore_slug \in Slugs : handle_mark_not_requested(user, chore_slug)
    \/ \E user \in Users : handle_reset_completed(user)
    \/ \E user \in Users : handle_start_new_day(user)

Spec == Init /\ [][Next]_vars

\* Reconciliation against changing snapshots, with chores being completed,
\* privileges being enabled and temporarily disabled, and time passing, in
\* between
InitReconcile == \E config \in ReconcileConfigs : async_setup(config)

NextReconcile ==
    \/ \E config \in ReconcileConfigs : async_config_changed(config)
    \/ \E user \in Users : handle_mark_complete(user, dishes)
    \/ \E key \in DOMAIN privilege_sensors : async_enable(key)
    \/ \E key \in DOMAIN privilege_sensors : async_temporarily_disable(key, 1)
    \/ Tick

SpecReconcile == InitReconcile /\ [][NextReconcile]_vars

\* The configuration loader, from its construction: nothing is loaded, the
\* file is absent or holds any of the documents
InitLoad ==
    /\ file \in {None} \cup { Some(doc) : doc \in Documents }
    /\ file_mtime = 0
    /\ loader_config = None
    /\ loader_last_mtime = None
    /\ load_result = "none"
    /\ callbacks = <<>>
    /\ notified = <<>>
    /\ watch_task = None
    /\ tasks = <<>>
    /\ stopping = None
    /\ in_flight = None
    /\ sensors = <<>>
    /\ privilege_sensors = <<>>
    /\ summary_sensors = <<>>
    /\ points = <<>>
    /\ points_earned = <<>>
    /\ points_missed = <<>>
    /\ privilege_states = <<>>
    /\ privilege_disable_until = <<>>
    /\ now = 0
    /\ last_op = [name |-> "setup", again |-> FALSE]

NextLoad ==
    \/ async_load
    \/ \E doc \in Documents : WriteFile(doc)
    \/ DeleteFile

SpecLoad == InitLoad /\ [][NextLoad]_vars

\* The loader of a running installation: the file is rewritten or deleted
\* behind its back, the watcher reloads, and chores are created, updated and
\* deleted through the loader
EditConfigs ==
    { SimpleChoresConfig(<<DishesDaily>>, <<TvAutomatic>>),
      SimpleChoresConfig(<<DishesDaily, TrashManual>>, <<>>) }

CreatedChores ==
    { TrashManual, DishesOnce, ChoreConfig("Dishes", DISHES, DAILY, <<bo>>, 1) }

InitEdit == \E config \in EditConfigs : async_setup(config)

NextEdit ==
    \/ async_load
    \/ \E doc \in Documents : WriteFile(doc)
    \/ DeleteFile
    \/ watch_file
    \/ \E chore \in CreatedChores : async_create_chore(chore)
    \/ \E slug \in Slugs, frequency \in {None, Some(ONCE)},
          assignees \in {None, Some(<<>>), Some(<<bo>>)} :
           async_update_chore(slug, frequency, assignees)
    \/ \E slug \in Slugs \cup {DISHES} : async_delete_chore(slug)

SpecEdit == InitEdit /\ [][NextEdit]_vars

\* The privileges of a fixed configuration: "tv" of bo follows the dishes and
\* the trash, "phone" of bo is MANUAL.  The chores are worth no points.
phone == <<"b">>
DishesFree == ChoreConfig("Dishes", dishes, DAILY, <<bo>>, 0)
TvLinked == PrivilegeConfig("TV", tv, AUTOMATIC, <<dishes, trash>>, <<bo>>)
PhoneManual == PrivilegeConfig("Phone", phone, MANUAL_BEHAVIOR, <<dishes>>, <<bo>>)

PrivilegeSetup ==
    SimpleChoresConfig(<<DishesFree, TrashFree>>, <<TvLinked, PhoneManual>>)

InitPrivilege == async_setup(PrivilegeSetup)

NextPrivilege ==
    \/ \E user \in Users, chore_slug \in Slugs : handle_mark_complete(user, chore_slug)
    \/ \E user \in Users, chore_slug \in Slugs : handle_mark_pending(user, chore_slug)
    \/ \E user \in Users, chore_slug \in Slugs : handle_mark_not_requested(user, chore_slug)
    \/ \E user \in Users : handle_start_new_day(user)
    \/ \E key \in DOMAIN privilege_sensors : async_update_from_chores(key)
    \/ \E key \in DOMAIN privilege_sensors : async_enable(key)
    \/ \E key \in DOMAIN privilege_sensors : async_disable(key)
    \/ \E key \in DOMAIN privilege_sensors : async_temporarily_disable(key, 1)
    \/ \E key \in DOMAIN privilege_sensors, adjustment_minutes \in {-1, 1} :
           async_adjust_temporary_disable(key, adjustment_minutes)
    \/ Tick

SpecPrivilege == InitPrivilege /\ [][NextPrivilege]_vars

\* The privilege without linked chores: "games" of Al and bo is AUTOMATIC
\* with nothing linked.  bo has the dishes and the trash; Al has the trash,
\* or no chore at all.
games == <<"a">>
TrashBoth == ChoreConfig("Trash", trash, MANUAL, <<Al, bo>>, 0)
GamesUnlinked == PrivilegeConfig("Games", games, AUTOMATIC, <<>>, <<Al, bo>>)

FallbackSetups ==
    { SimpleChoresConfig(<<DishesFree, TrashBoth>>, <<GamesUnlinked>>),
      SimpleChoresConfig(<<DishesFree, TrashFree>>, <<GamesUnlinked>>) }

InitFallback == \E config \in FallbackSetups : async_setup(config)

NextFallback ==
    \/ \E user \in Users, chore_slug \in Slugs : handle_mark_complete(user, chore_slug)
    \/ \E user \in Users, chore_slug \in Slugs : handle_mark_pending(user, chore_slug)
    \/ \E user \in Users, chore_slug \in Slugs : handle_mark_not_requested(user, chore_slug)
    \/ \E key \in DOMAIN privilege_sensors : async_update_from_chores(key)

SpecFallback == InitFallback /\ [][NextFallback]_vars

\* The ledger services while an assignee leaves the configuration: the
\* dishes are Al's and bo's, and later bo's only
DishesOfBo == ChoreConfig("Dishes", dishes, DAILY, <<bo>>, 1)

InitLedger == async_setup(SimpleChoresConfig(<<DishesDaily>>, <<>>))

NextLedger ==
    \/ \E user \in Users : handle_mark_complete(user, dishes)
    \/ \E user \in Users : handle_mark_pending(user, dishes)
    \/ \E user \in Users : handle_start_new_day(user)
    \/ \E user \in Users, reset_total \in BOOLEAN :
           handle_reset_points(user, reset_total)
    \/ async_config_changed(SimpleChoresConfig(<<DishesOfBo>>, <<>>))

SpecLedger == InitLedger /\ [][NextLedger]_vars

\* Every service that changes chore states or ledger counters, and the
\* reconciliation, over the one-point dishes of bo
Adjustments == {-1, 1}

InitSummary == async_setup(SimpleChoresConfig(<<DishesOfBo>>, <<>>))

NextSummary ==
    \/ \E user \in Users : handle_mark_complete(user, dishes)
    \/ \E user \in Users : handle_mark_pending(user, dishes)
    \/ \E user \in Users : handle_mark_not_requested(user, dishes)
    \/ \E user \in Users : handle_reset_completed(user)
    \/ \E user \in Users : handle_start_new_day(user)
    \/ \E adjustment \in Adjustments : handle_adjust_points(bo, adjustment)
    \/ \E user \in Users, reset_total \in BOOLEAN :
           handle_reset_points(user, reset_total)
    \/ async_config_changed(loader_config[1])

SpecSummary == InitSummary /\ [][NextSummary]_vars

\* Calls that name a chore or an assignee, on the installation with the
\* dishes of bo: the mark services, and the update, deletion and creation
\* of chores through the loader
InitResolve == async_setup(SimpleChoresConfig(<<DishesOfBo>>, <<>>))

NextResolve ==
    \/ \E user \in Users, chore_slug \in Slugs : handle_mark_complete(user, chore_slug)
    \/ \E user \in Users, chore_slug \in Slugs : handle_mark_pending(user, chore_slug)
    \/ \E user \in Users, chore_slug \in Slugs : handle_mark_not_requested(user, chore_slug)
    \/ \E slug \in Slugs, frequency \in {None, Some(ONCE)} :
           async_update_chore(slug, frequency, None)
    \/ \E slug \in Slugs : async_delete_chore(slug)
    \/ \E chore \in {DishesOfBo, TrashManual} : async_create_chore(chore)

SpecResolve == InitResolve /\ [][NextResolve]_vars

\* The rollover and the reset with a user filter, where the name of one
\* assignee followed by an underscore begins the name of another: the
\* dishes are Al's ("A") and al_b's ("a_b")
al_b == <<"a", "_", "b">>
DishesOfTwo == ChoreConfig("Dishes", dishes, DAILY, <<Al, al_b>>, 1)
PrefixUsers == {None, Al, al_b}

InitPrefix == async_setup(SimpleChoresConfig(<<DishesOfTwo>>, <<>>))

NextPrefix ==
    \/ \E user \in PrefixUsers : handle_mark_complete(user, dishes)
    \/ \E user \in PrefixUsers : handle_mark_pending(user, dishes)
    \/ \E user \in PrefixUsers : handle_reset_completed(user)
    \/ \E user \in PrefixUsers : handle_start_new_day(user)

SpecPrefix == InitPrefix /\ [][NextPrefix]_vars

\* The poll loop of a running installation: the file is rewritten behind the
\* loader's back, and the watcher is stopped and started again
WatchConfig == SimpleChoresConfig(<<DishesOfBo>>, <<>>)

WatchDocuments ==
    { NotYaml,
      dump(WatchConfig),
      Document(<<RawChore(dishes, <<Al>>, 1)>>, <<>>) }

InitWatch == async_setup(WatchConfig)

NextWatch ==
    \/ \E doc \in WatchDocuments : WriteFile(doc)
    \/ async_start_watching
    \/ async_stop_watching
    \/ async_stop_watching_returns
    \/ \E t \in DOMAIN tasks : watch_file_sleep(t)
    \/ \E t \in DOMAIN tasks : watch_file_check(t)
    \/ \E t \in DOMAIN tasks : watch_file_load(t)
    \/ \E t \in DOMAIN tasks : watch_file_callback(t)
    \/ \E t \in DOMAIN tasks : watch_file_cancelled(t)

SpecWatch == InitWatch /\ [][NextWatch]_vars

\* The poll loop with callbacks being registered while the file is rewritten
\* behind the loader's back: with texts that do not load, with the text it
\* has, with another text of the same snapshot, and with another snapshot
NotifyDocuments ==
    { NotYaml,
      dump(WatchConfig),
      Document(<<RawChore(DISHES, <<bo>>, 1)>>, <<>>),
      Document(<<RawChore(dishes, <<Al>>, 1)>>, <<>>),
      Document(<<RawChore(dishes, <<Al>>, 1)>>,
               <<RawPrivilege(tv, <<trash>>, <<Al>>)>>) }

InitNotify == async_setup(WatchConfig)

NextNotify ==
    \/ \E doc \in NotifyDocuments : WriteFile(doc)
    \/ DeleteFile
    \/ \E callback \in {RaisingCallback, OtherCallback} :
           register_callback(callback)
    \/ \E t \in DOMAIN tasks : watch_file_sleep(t)
    \/ \E t \in DOMAIN tasks : watch_file_check(t)
    \/ \E t \in DOMAIN tasks : watch_file_load(t)
    \/ \E t \in DOMAIN tasks : watch_file_callback(t)

SpecNotify == InitNotify /\ [][NextNotify]_vars

\* The poll loop while chores are created and deleted through the loader;
\* nobody else writes the file
InitSave == async_setup(WatchConfig)

NextSave ==
    \/ create_chore_begins(TrashManual)
    \/ \E slug \in {dishes, trash} : delete_chore_begins(slug)
    \/ async_save_write
    \/ async_save_written
    \/ async_save_stat
    \/ \E t \in DOMAIN tasks : watch_file_sleep(t)
    \/ \E t \in DOMAIN tasks : watch_file_check(t)
    \/ \E t \in DOMAIN tasks : watch_file_load(t)
    \/ \E t \in DOMAIN tasks : watch_file_callback(t)

SpecSave == InitSave /\ [][NextSave]_vars

\* The poll loop while chores are marked complete: the file is rewritten
\* with the dishes taken from bo, or given back
RaceConfig == SimpleChoresConfig(<<DishesDaily>>, <<>>)

RaceDocuments ==
    { dump(RaceConfig), Document(<<RawChore(dishes, <<Al>>, 1)>>, <<>>) }

InitRace == async_setup(RaceConfig)

NextRace ==
    \/ \E user \in {None, bo} : mark_complete_begins(user, dishes)
    \/ mark_complete_resumes
    \/ \E doc \in RaceDocuments : WriteFile(doc)
    \/ \E t \in DOMAIN tasks : watch_file_sleep(t)
    \/ \E t \in DOMAIN tasks : watch_file_check(t)
    \/ \E t \in DOMAIN tasks : watch_file_load(t)
    \/ \E t \in DOMAIN tasks : watch_file_callback(t)

SpecRace == InitRace /\ [][NextRace]_vars

\* The event loop runs the poll loop: its sleep ends, the executor answers,
\* a callback returns or raises
LoopStep ==
    \E t \in DOMAIN tasks :
        \/ watch_file_sleep(t)
        \/ watch_file_check(t)
        \/ watch_file_load(t)
        \/ watch_file_callback(t)

SpecNotifyLive == SpecNotify /\ WF_vars(LoopStep)

\* The privileges of the fixed configuration, temporarily disabled for a
\* duration that is positive or negative, while time passes
Durations == {-1, 1}

InitDuration == async_setup(PrivilegeSetup)

NextDuration ==
    \/ \E key \in DOMAIN privilege_sensors, duration_minutes \in Durations :
           async_temporarily_disable(key, duration_minutes)
    \/ \E key \in DOMAIN privilege_sensors : async_enable(key)
    \/ \E key \in DOMAIN privilege_sensors : async_update_from_chores(key)
    \/ Tick

SpecDuration == InitDuration /\ [][NextDuration]_vars

\* Two assignees whose names differ only in the case of a letter: the
\* dishes are Al's ("A") and al's ("a")
al == <<"a">>
DishesOfNamesakes == ChoreConfig("Dishes", dishes, DAILY, <<Al, al>>, 1)
NamesakeUsers == {None, Al, al}

InitNamesakes ==
    async_setup(SimpleChoresConfig(<<DishesOfNamesakes>>, <<>>))

NextNamesakes ==
    \/ \E user \in NamesakeUsers : handle_mark_complete(user, dishes)
    \/ \E user \in NamesakeUsers : handle_mark_pending(user, dishes)
    \/ \E user \in NamesakeUsers : handle_mark_not_requested(user, dishes)
    \/ \E user \in NamesakeUsers : handle_start_new_day(user)
    \/ \E user \in NamesakeUsers, reset_total \in BOOLEAN :
           handle_reset_points(user, reset_total)

SpecNamesakes == InitNamesakes /\ [][NextNamesakes]_vars

\* Mark calls that overlap, on the dishes (DAILY) and the trash (MANUAL) of
\* bo, one point each
InitOverlap ==
    async_setup(SimpleChoresConfig(<<DishesOfBo, TrashManual>>, <<>>))

NextOverlap ==
    \/ \E service \in {"mark_complete", "mark_pending"}, user \in {None, bo},
          chore_slug \in Slugs :
           mark_call_begins(service, user, chore_slug)
    \/ \E i \in 1 .. MaxCalls : mark_call_resumes(i)

SpecOverlap == InitOverlap /\ [][NextOverlap]_vars

\* A rollover that overlaps with mark calls, on the dishes (DAILY) and the
\* trash (MANUAL) of bo
InitRollover ==
    async_setup(SimpleChoresConfig(<<DishesOfBo, TrashManual>>, <<>>))

NextRollover ==
    \/ \E service \in {"mark_complete", "mark_pending"}, chore_slug \in Slugs :
           mark_call_begins(service, bo, chore_slug)
    \/ \E i \in 1 .. MaxCalls : mark_call_resumes(i)
    \/ \E user \in {None, bo} : start_new_day_begins(user)
    \/ \E i \in 1 .. MaxCalls : start_new_day_resumes(i)

SpecRollover == InitRollover /\ [][NextRollover]_vars

\* The poll loop while another process replaces the file with valid
\* documents of two snapshots, leaving any modification time
RewriteDocuments ==
    { dump(WatchConfig), Document(<<RawChore(dishes, <<Al>>, 1)>>, <<>>) }

InitRewrite == async_setup(WatchConfig)

NextRewrite ==
    \/ \E doc \in RewriteDocuments, mtime \in 0 .. MaxWrites :
           RewriteFile(doc, mtime)
    \/ \E t \in DOMAIN tasks : watch_file_sleep(t)
    \/ \E t \in DOMAIN tasks : watch_file_check(t)
    \/ \E t \in DOMAIN tasks : watch_file_read(t)
    \/ \E t \in DOMAIN tasks : watch_file_marker(t)
    \/ \E t \in DOMAIN tasks : watch_file_callback(t)

SpecRewrite == InitRewrite /\ [][NextRewrite]_vars

\* The event loop runs the poll loop whenever it can go on
RewriteLoopStep ==
    \E t \in DOMAIN tasks :
        \/ watch_file_sleep(t)
        \/ watch_file_check(t)
        \/ watch_file_read(t)
        \/ watch_file_marker(t)
        \/ watch_file_callback(t)

SpecRewriteLive == SpecRewrite /\ WF_vars(RewriteLoopStep)

\* Marks, rollovers, resets and reconciliations on the dishes of bo, whose
\* points the configuration changes between 1 and 2
DishesWorthTwo == ChoreConfig("Dishes", dishes, DAILY, <<bo>>, 2)

InitSigns == async_setup(SimpleChoresConfig(<<DishesOfBo>>, <<>>))

NextSigns ==
    \/ \E user \in {None, bo} : handle_mark_complete(user, dishes)
    \/ \E user \in {None, bo} : handle_mark_pending(user, dishes)
    \/ \E user \in {None, bo} : handle_start_new_day(user)
    \/ \E user \in {None, bo}, reset_total \in BOOLEAN :
           handle_reset_points(user, reset_total)
    \/ \E chore \in {DishesOfBo, DishesWorthTwo} :
           async_config_changed(SimpleChoresConfig(<<chore>>, <<>>))

SpecSigns == InitSigns /\ [][NextSigns]_vars

(***************************************************************************)
(* Properties of the chore services                                       *)
(***************************************************************************)
\* The sum of the points of a set of chore sensors, by their current
\* definitions
RECURSIVE PointsOf(_)
PointsOf(ids) ==
    IF ids = {} THEN 0
    ELSE LET id == CHOOSE x \in ids : TRUE
         IN  sensors[id].chore.points + PointsOf(ids \ {id})

\* The sensors of an assignee that a step moves into COMPLETE, and those it
\* moves out of COMPLETE
Completed(assignee) ==
    { id \in DOMAIN sensors \cap DOMAIN sensors' :
        /\ sensors[id].assignee = assignee
        /\ sensors[id].state # COMPLETE
        /\ sensors'[id].state = COMPLETE }

LeftComplete(assignee) ==
    { id \in DOMAIN sensors \cap DOMAIN sensors' :
        /\ sensors[id].assignee = assignee
        /\ sensors[id].state = COMPLETE
        /\ sensors'[id].state # COMPLETE }

\* The sensors a call with this user filter has in scope: all of them when
\* no user is given, else those whose id starts with the sanitized user and
\* an underscore.
InScope(user) ==
    IF user = None THEN DOMAIN sensors
    ELSE { id \in DOMAIN sensors :
             startswith(id, sanitize_entity_id(user) \o <<"_">>) }

\* Both ledgers of an assignee move by the same amount in a step.
LedgerDelta(assignee, delta) ==
    /\ dict_get(points', assignee) = dict_get(points, assignee) + delta
    /\ dict_get(points_earned', assignee)
           = dict_get(points_earned, assignee) + delta

\* C1: a handle_mark_complete call adds to each assignee's total and earned
\* ledgers exactly the points of the chores it moves from a non-COMPLETE
\* state into COMPLETE, so a call on a chore that is already COMPLETE changes
\* neither ledger; a handle_mark_pending call subtracts exactly the points of
\* the chores it moves out of COMPLETE, so the award is taken back once.
C1_AwardOnCompletionEdge ==
    [][/\ last_op'.name = "mark_complete" =>
            \A a \in Assignees :
                /\ LedgerDelta(a, PointsOf(Completed(a)))
                /\ LeftComplete(a) = {}
       /\ last_op'.name = "mark_pending" =>
            \A a \in Assignees :
                /\ LedgerDelta(a, 0 - PointsOf(LeftComplete(a)))
                /\ Completed(a) = {}
      ]_vars

\* bo completed the dishes and was then marked pending again: the ledger
\* entries the award created are back at 0.
C1_Witness ==
    /\ last_op.name = "mark_pending"
    /\ sensors[entity_key(bo, dishes)].state = PENDING
    /\ bo \in DOMAIN points /\ points[bo] = 0
    /\ bo \in DOMAIN points_earned /\ points_earned[bo] = 0

\* C2: a handle_mark_pending or handle_mark_not_requested call subtracts from
\* each assignee's total and earned ledgers exactly the points of the chores
\* it moves out of COMPLETE.
C2_LeavingCompleteTakesAwardBack ==
    [][last_op'.name \in {"mark_pending", "mark_not_requested"} =>
          \A a \in Assignees : LedgerDelta(a, 0 - PointsOf(LeftComplete(a)))
      ]_vars

\* The in-scope sensors of an assignee that are PENDING
PendingInScope(user, assignee) ==
    { id \in InScope(user) : /\ sensors[id].assignee = assignee
                              /\ sensors[id].state = PENDING }

\* A handle_start_new_day call adds this much to each assignee's missed
\* counter.
MissedDelta(user) ==
    \A a \in Assignees :
        dict_get(points_missed', a)
            = dict_get(points_missed, a) + PointsOf(PendingInScope(user, a))

\* C3 as stated: the second of two handle_start_new_day calls in succession
\* leaves every missed counter as the first call left it.
C3_SecondRolloverAccruesNothing ==
    [][(last_op.name = "start_new_day" /\ last_op'.name = "start_new_day") =>
          \A a \in Assignees :
              dict_get(points_missed', a) = dict_get(points_missed, a)
      ]_vars

\* C3: the second of two handle_start_new_day calls in succession adds to
\* each assignee's missed counter the points of that assignee's in-scope
\* chores that are PENDING after the first call, and leaves the counter of an
\* assignee without such a chore as the first call left it.
C3_SecondRolloverAccruesPendingAgain ==
    [][\A user \in Users :
          (/\ last_op.name = "start_new_day"
           /\ last_op'.name = "start_new_day"
           /\ handle_start_new_day(user)) => MissedDelta(user)
      ]_vars

\* Two rollovers in succession with Al's one-point daily chore PENDING
\* throughout: Al never earned anything and has missed it twice.
C3_Witness ==
    /\ last_op.name = "start_new_day" /\ last_op.again
    /\ sensors[entity_key(Al, dishes)].chore = DishesDaily
    /\ sensors[entity_key(Al, dishes)].state = PENDING
    /\ Al \notin DOMAIN points_earned
    /\ dict_get(points_missed, Al) = 2

\* C4: handle_start_new_day moves every in-scope COMPLETE chore of frequency
\* MANUAL to NOT_REQUESTED and of frequency DAILY to PENDING, leaves a
\* COMPLETE chore of frequency ONCE in COMPLETE, and leaves every chore that is
\* PENDING or NOT_REQUESTED in its state.
C4_RolloverTransitions ==
    [][\A user \in Users :
          (last_op'.name = "start_new_day" /\ handle_start_new_day(user)) =>
              \A id \in DOMAIN sensors :
                  LET before == sensors[id]
                      after == sensors'[id].state
                  IN  /\ (/\ id \in InScope(user)
                          /\ before.state = COMPLETE
                          /\ before.chore.frequency = MANUAL)
                         => after = NOT_REQUESTED
                      /\ (/\ id \in InScope(user)
                          /\ before.state = COMPLETE
                          /\ before.chore.frequency = DAILY)
                         => after = PENDING
                      /\ (before.state = COMPLETE /\ before.chore.frequency = ONCE)
                         => after = COMPLETE
                      /\ before.state \in {PENDING, NOT_REQUESTED}
                         => after = before.state
      ]_vars

\* A rollover has left bo's completed one-time dishes COMPLETE and has reset
\* bo's completed manual trash to NOT_REQUESTED: bo has earned the dishes'
\* points, and the trash is worth none.
C4_Witness ==
    /\ last_op.name = "start_new_day"
    /\ sensors[entity_key(bo, dishes)].chore = DishesOnce
    /\ sensors[entity_key(bo, dishes)].state = COMPLETE
    /\ sensors[entity_key(bo, trash)].state = NOT_REQUESTED
    /\ bo \in DOMAIN points_earned /\ points_earned[bo] = 2

\* C5: handle_start_new_day adds to each assignee's missed counter exactly
\* the sum of the points of that assignee's in-scope chores that were PENDING
\* when the call began (an assignee out of scope gets nothing added); chores
\* that were COMPLETE or NOT_REQUESTED contribute nothing, also a DAILY chore
\* that the call turns from COMPLETE to PENDING.
C5_RolloverAccruesPending ==
    [][\A user \in Users :
          (last_op'.name = "start_new_day" /\ handle_start_new_day(user)) =>
              MissedDelta(user)
      ]_vars

\* After one rollover bo has missed the trash (1 point) but not the daily
\* dishes, which bo had completed (earned 1) and which are PENDING again.
C5_Witness ==
    /\ last_op.name = "start_new_day" /\ ~last_op.again
    /\ sensors[entity_key(bo, dishes)].chore = DishesDaily
    /\ sensors[entity_key(bo, dishes)].state = PENDING
    /\ sensors[entity_key(bo, trash)].state = PENDING
    /\ dict_get(points_earned, bo) = 1
    /\ dict_get(points_missed, bo) = 1

\* C6: handle_start_new_day never changes an assignee's total or earned
\* counter.
C6_RolloverKeepsTotals ==
    [][last_op'.name = "start_new_day" =>
          \A a \in Assignees :
              /\ dict_get(points', a) = dict_get(points, a)
              /\ dict_get(points_earned', a) = dict_get(points_earned, a)
      ]_vars

\* A rollover has reset Al's completed daily dishes to PENDING and Al still
\* has the point earned for them.
C6_Witness ==
    /\ last_op.name = "start_new_day"
    /\ sensors[entity_key(Al, dishes)].chore = DishesDaily
    /\ sensors[entity_key(Al, dishes)].state = PENDING
    /\ dict_get(points, Al) = 1
    /\ dict_get(points_earned, Al) = 1
    /\ Al \notin DOMAIN points_missed

(***************************************************************************)
(* Properties of the reconciliation                                       *)
(***************************************************************************)
\* C7: for every (assignee, slug) pair of the new snapshot whose key exists
\* before async_config_changed, the entity under that key is still there
\* afterwards with its assignee and state unchanged and with the snapshot's
\* definition; this for chore entities and for privilege entities, for every
\* assignee name the configuration accepts.
C7_ReconcileKeepsSurvivors ==
    [][\A config \in ReconcileConfigs :
          (last_op'.name = "config_changed" /\ async_config_changed(config)) =>
              /\ \A i \in DOMAIN chore_pairs(config.chores) :
                    LET p == chore_pairs(config.chores)[i]
                        key == entity_key(p.assignee, p.chore.slug)
                    IN  key \in DOMAIN sensors =>
                            /\ key \in DOMAIN sensors'
                            /\ sensors'[key].assignee = sensors[key].assignee
                            /\ sensors'[key].state = sensors[key].state
                            /\ sensors'[key].chore = p.chore
              /\ \A i \in DOMAIN privilege_pairs(config.privileges) :
                    LET p == privilege_pairs(config.privileges)[i]
                        key == entity_key(p.assignee, p.privilege.slug)
                    IN  key \in DOMAIN privilege_sensors =>
                            /\ key \in DOMAIN privilege_sensors'
                            /\ privilege_sensors'[key].assignee
                                   = privilege_sensors[key].assignee
                            /\ privilege_sensors'[key].state
                                   = privilege_sensors[key].state
                            /\ privilege_sensors'[key].privilege = p.privilege
      ]_vars

\* C8: after async_config_changed there is exactly one chore entity for
\* every (assignee, chore) pair of the snapshot and exactly one privilege
\* entity for every (assignee, privilege) pair, and no entity for anything
\* else.
C8_ReconcileIsExact ==
    [][\A config \in ReconcileConfigs :
          (last_op'.name = "config_changed" /\ async_config_changed(config)) =>
              LET cp == chore_pairs(config.chores)
                  pp == privilege_pairs(config.privileges)
                  chore_entities(i) ==
                      { id \in DOMAIN sensors' :
                          /\ sensors'[id].assignee = cp[i].assignee
                          /\ sensors'[id].chore.slug = cp[i].chore.slug }
                  privilege_entities(i) ==
                      { id \in DOMAIN privilege_sensors' :
                          /\ privilege_sensors'[id].assignee = pp[i].assignee
                          /\ privilege_sensors'[id].privilege.slug
                                 = pp[i].privilege.slug }
              IN  /\ \A i \in DOMAIN cp : Cardinality(chore_entities(i)) = 1
                  /\ \A id \in DOMAIN sensors' :
                        \E i \in DOMAIN cp : id \in chore_entities(i)
                  /\ \A i \in DOMAIN pp : Cardinality(privilege_entities(i)) = 1
                  /\ \A id \in DOMAIN privilege_sensors' :
                        \E i \in DOMAIN pp : id \in privilege_entities(i)
      ]_vars

\* C9: an entity that async_config_changed adds under a key that was not in
\* the set before the call starts fresh: a chore entity NOT_REQUESTED, a
\* privilege entity DISABLED without a temporary-disable end time -- also
\* when the key was in the set earlier and had been removed.
C9_AddedEntitiesStartFresh ==
    [][last_op'.name = "config_changed" =>
          /\ \A id \in DOMAIN sensors' \ DOMAIN sensors :
                sensors'[id].state = NOT_REQUESTED
          /\ \A key \in DOMAIN privilege_sensors' \ DOMAIN privilege_sensors :
                /\ privilege_sensors'[key].state = DISABLED
                /\ privilege_sensors'[key].disable_until = None
      ]_vars

(***************************************************************************)
(* Properties of the configuration loader                                 *)
(***************************************************************************)
\* Two chores of a document have the same slug after normalisation.
DuplicateSlug(doc) ==
    \E i, j \in DOMAIN doc.chores :
        /\ i # j
        /\ sanitize_entity_id(doc.chores[i].slug)
              = sanitize_entity_id(doc.chores[j].slug)

\* A privilege of a document links a slug that is no chore's normalised slug.
DanglingLink(doc) ==
    \E i \in DOMAIN doc.privileges :
        \E j \in DOMAIN doc.privileges[i].linked_chores :
            \A k \in DOMAIN doc.chores :
                sanitize_entity_id(doc.chores[k].slug)
                    # doc.privileges[i].linked_chores[j]

\* A chore or a privilege of a document has no assignee.
EmptyAssignees(doc) ==
    \/ \E i \in DOMAIN doc.chores : Len(doc.chores[i].assignees) = 0
    \/ \E i \in DOMAIN doc.privileges : Len(doc.privileges[i].assignees) = 0

InvalidDocument(doc) ==
    \/ doc = NotYaml
    \/ doc # NotYaml /\ (DuplicateSlug(doc) \/ DanglingLink(doc) \/ EmptyAssignees(doc))

C11_SnapshotIsConsistent ==
    loader_config # None =>
        LET config == loader_config[1]
        IN  /\ \A i, j \in DOMAIN config.chores :
                   i # j => config.chores[i].slug # config.chores[j].slug
            /\ \A i, j \in DOMAIN config.privileges :
                   i # j => config.privileges[i].slug # config.privileges[j].slug
            /\ \A i \in DOMAIN config.privileges :
                   \A j \in DOMAIN config.privileges[i].linked_chores :
                       \E k \in DOMAIN config.chores :
                           config.chores[k].slug =
                               config.privileges[i].linked_chores[j]

\* The only chore of the installation, which a privilege was linked to, has
\* been deleted through the loader as the first write after the setup: the
\* snapshot is left without the chore and without the privilege
C11_Witness ==
    /\ last_op.name = "delete_chore"
    /\ loader_config = Some(SimpleChoresConfig(<<>>, <<>>))
    /\ file = Some(dump(SimpleChoresConfig(<<>>, <<>>)))
    /\ file_mtime = 1

(***************************************************************************)
(* Properties of the privileges                                            *)
(***************************************************************************)
TvKey == entity_key(bo, tv)
PhoneKey == entity_key(bo, phone)

\* The privilege is temporarily disabled and its end time is still ahead
InsideTemporaryDisable(sensor) ==
    /\ sensor.state = TEMPORARILY_DISABLED
    /\ sensor.disable_until # None
    /\ now < sensor.disable_until[1]

\* Every linked chore of the privilege has an entity of the privilege's
\* assignee that is COMPLETE
EveryLinkedChoreComplete(sensor) ==
    \A i \in DOMAIN sensor.privilege.linked_chores :
        \E id \in DOMAIN sensors :
            /\ sensors[id].assignee = sensor.assignee
            /\ sensors[id].chore.slug = sensor.privilege.linked_chores[i]
            /\ sensors[id].state = COMPLETE

\* C12: right after the automatic re-evaluation of an AUTOMATIC privilege
\* with linked chores that is not inside an unexpired temporary disable, the
\* privilege is ENABLED if every linked chore of its assignee has a COMPLETE
\* entity and DISABLED otherwise (so a linked chore that went back to PENDING
\* makes the next evaluation yield DISABLED).
C12_ReevaluationFollowsLinkedChores ==
    [][\A key \in DOMAIN privilege_sensors :
           LET sensor == privilege_sensors[key]
           IN  (/\ last_op'.name = "update_from_chores"
                /\ async_update_from_chores(key)
                /\ sensor.privilege.behavior = AUTOMATIC
                /\ sensor.privilege.linked_chores # <<>>
                /\ ~InsideTemporaryDisable(sensor))
               => privilege_sensors'[key].state =
                      IF EveryLinkedChoreComplete(sensor)
                      THEN PRIVILEGE_ENABLED ELSE DISABLED]_vars

\* The dishes went back to PENDING while the trash is COMPLETE, and the
\* re-evaluation has left "tv" DISABLED, in storage too
C12_Witness ==
    /\ last_op.name = "update_from_chores"
    /\ sensors[entity_key(bo, dishes)].state = PENDING
    /\ sensors[entity_key(bo, trash)].state = COMPLETE
    /\ privilege_sensors[TvKey].state = DISABLED
    /\ get_privilege_state(privilege_states, bo, tv) = DISABLED

\* An assignee one of whose chore entities changed state in the step
AffectedAssignee(assignee) ==
    \E id \in DOMAIN sensors :
        /\ sensors[id].assignee = assignee
        /\ sensors'[id].state # sensors[id].state

\* C13: when handle_mark_complete, handle_mark_pending,
\* handle_mark_not_requested or handle_start_new_day has completed, every
\* AUTOMATIC privilege of an affected assignee that is not inside an
\* unexpired temporary disable is ENABLED if and only if its
\* linked-chores-complete evaluation holds on the new chore states.
C13_ServicesReevaluatePrivileges ==
    [][last_op'.name \in {"mark_complete", "mark_pending",
                           "mark_not_requested", "start_new_day"}
       => \A key \in DOMAIN privilege_sensors' :
              LET sensor == privilege_sensors'[key]
              IN  (/\ AffectedAssignee(sensor.assignee)
                   /\ sensor.privilege.behavior = AUTOMATIC
                   /\ ~InsideTemporaryDisable(sensor))
                  => (sensor.state = PRIVILEGE_ENABLED
                          <=> are_linked_chores_complete(sensor, sensors'))]_vars

\* C14: reading the state of an AUTOMATIC privilege at or after its
\* disable_until never returns TEMPORARILY_DISABLED: the expiry of the timer
\* is applied by the read.
C14_ExpiryAppliedOnRead ==
    \A key \in DOMAIN privilege_sensors :
        LET sensor == privilege_sensors[key]
        IN  (/\ sensor.privilege.behavior = AUTOMATIC
             /\ sensor.disable_until # None
             /\ now >= sensor.disable_until[1])
            => get_state(sensor) # TEMPORARILY_DISABLED

\* The privilege sensor under key has the given state and no end time after
\* the step, and so has the storage
SetDirectly(key, state) ==
    LET sensor == privilege_sensors'[key]
    IN  /\ sensor.state = state
        /\ sensor.disable_until = None
        /\ get_privilege_state(privilege_states', sensor.assignee,
                               sensor.privilege.slug) = state
        /\ get_privilege_disable_until(privilege_disable_until',
               sensor.assignee, sensor.privilege.slug) = None

\* C15: async_enable and async_disable are accepted in every privilege state
\* and for both behaviours; afterwards the state is exactly ENABLED (resp.
\* DISABLED) and disable_until is cleared, in memory and in storage.
C15_EnableDisableSetDirectly ==
    /\ [](\A key \in DOMAIN privilege_sensors :
              /\ ENABLED async_enable(key)
              /\ ENABLED async_disable(key))
    /\ [][\A key \in DOMAIN privilege_sensors :
              /\ (last_op'.name = "enable" /\ async_enable(key))
                     => SetDirectly(key, PRIVILEGE_ENABLED)
              /\ (last_op'.name = "disable" /\ async_disable(key))
                     => SetDirectly(key, DISABLED)]_vars

\* The MANUAL "phone" was disabled by hand while the AUTOMATIC "tv" is
\* temporarily disabled with both of its chores complete
C15_Witness ==
    /\ last_op.name = "disable"
    /\ privilege_sensors[PhoneKey].state = DISABLED
    /\ get_privilege_state(privilege_states, bo, phone) = DISABLED
    /\ privilege_sensors[TvKey].state = TEMPORARILY_DISABLED
    /\ sensors[entity_key(bo, dishes)].state = COMPLETE
    /\ sensors[entity_key(bo, trash)].state = COMPLETE

\* C16: when async_adjust_temporary_disable moves the end time of a
\* TEMPORARILY_DISABLED privilege to a time not later than now, then after
\* the call the privilege is not TEMPORARILY_DISABLED with an expired end
\* time, and the end time in memory agrees with the stored one, whatever the
\* privilege's behaviour.
C16_AdjustLeavesNoStaleTimer ==
    [][\A key \in DOMAIN privilege_sensors, adjustment_minutes \in {-1, 1} :
           LET sensor == privilege_sensors[key]
               after == privilege_sensors'[key]
           IN  (/\ last_op'.name = "adjust_temporary_disable"
                /\ async_adjust_temporary_disable(key, adjustment_minutes)
                /\ sensor.state = TEMPORARILY_DISABLED
                /\ sensor.disable_until # None
                /\ sensor.disable_until[1] + adjustment_minutes <= now)
               => /\ ~(/\ after.state = TEMPORARILY_DISABLED
                       /\ after.disable_until # None
                       /\ after.disable_until[1] <= now)
                  /\ after.disable_until =
                         get_privilege_disable_until(privilege_disable_until',
                             after.assignee, after.privilege.slug)]_vars

\* C17: while a privilege is TEMPORARILY_DISABLED and its disable_until is
\* still in the future, the automatic re-evaluation changes nothing: the
\* state and the end time, in memory and in storage, stay as they are
\* whatever the states of the linked chores.
C17_RunningTimerBlocksReevaluation ==
    [][\A key \in DOMAIN privilege_sensors :
           (/\ last_op'.name = "update_from_chores"
            /\ async_update_from_chores(key)
            /\ InsideTemporaryDisable(privilege_sensors[key]))
           => UNCHANGED <<privilege_sensors, privilege_states,
                          privilege_disable_until>>]_vars

\* "tv" is re-evaluated with both linked chores complete while its timer is
\* running, and stays temporarily disabled
C17_Witness ==
    /\ last_op.name = "update_from_chores"
    /\ InsideTemporaryDisable(privilege_sensors[TvKey])
    /\ sensors[entity_key(bo, dishes)].state = COMPLETE
    /\ sensors[entity_key(bo, trash)].state = COMPLETE

\* The chore entities of an assignee, by the configuration: one for every
\* chore that lists the assignee
ChoreEntitiesOf(assignee) ==
    { entity_key(assignee, loader_config[1].chores[i].slug) :
        i \in { j \in DOMAIN loader_config[1].chores :
                  \E k \in DOMAIN loader_config[1].chores[j].assignees :
                      loader_config[1].chores[j].assignees[k] = assignee } }

\* C18: for an AUTOMATIC privilege without linked chores the
\* linked-chores-complete evaluation is false if any chore entity of the
\* assignee is PENDING, and otherwise true exactly when at least one of them
\* is COMPLETE (false when all are NOT_REQUESTED or there is none); the
\* chores of other assignees have no influence.
C18_FallbackRule ==
    \A key \in DOMAIN privilege_sensors :
        LET sensor == privilege_sensors[key]
            own == ChoreEntitiesOf(sensor.assignee)
        IN  (/\ sensor.privilege.behavior = AUTOMATIC
             /\ sensor.privilege.linked_chores = <<>>)
            => (are_linked_chores_complete(sensor, sensors)
                    <=> IF \E id \in own : sensors[id].state = PENDING
                        THEN FALSE
                        ELSE \E id \in own : sensors[id].state = COMPLETE)

\* bo has one chore COMPLETE and one PENDING, so the evaluation is false for
\* bo; Al's only chore is COMPLETE, so it is true for Al
C18_Witness ==
    /\ entity_key(Al, trash) \in DOMAIN sensors
    /\ sensors[entity_key(Al, trash)].state = COMPLETE
    /\ sensors[entity_key(bo, dishes)].state = COMPLETE
    /\ sensors[entity_key(bo, trash)].state = PENDING
    /\ are_linked_chores_complete(privilege_sensors[entity_key(Al, games)], sensors)
    /\ ~are_linked_chores_complete(privilege_sensors[entity_key(bo, games)], sensors)
    /\ privilege_sensors[entity_key(Al, games)].state = PRIVILEGE_ENABLED

(***************************************************************************)
(* Properties of the ledger services and of the summary                    *)
(***************************************************************************)
\* The assignees a reset is aimed at: the named user, or everybody with a
\* total, earned or missed entry and everybody with a chore
TargetedAssignees(user) ==
    IF truthy(user)
    THEN {user}
    ELSE DOMAIN points \cup DOMAIN points_earned \cup DOMAIN points_missed
             \cup { sensors[id].assignee : id \in DOMAIN sensors }

\* C19: handle_reset_points sets earned and missed to 0, and the total to 0
\* only when reset_total is given, for exactly the targeted assignees (the
\* named user, or without a user every assignee with a total, earned or
\* missed entry and every assignee of a current chore); the total is kept
\* when reset_total is false, and no counter of anybody else changes.
C19_ResetPointsTargets ==
    [][\A user \in Users, reset_total \in BOOLEAN :
           (/\ last_op'.name = "reset_points"
            /\ handle_reset_points(user, reset_total))
           => \A a \in Assignees :
                  IF a \in TargetedAssignees(user)
                  THEN /\ dict_get(points_earned', a) = 0
                       /\ dict_get(points_missed', a) = 0
                       /\ dict_get(points', a) =
                              IF reset_total THEN 0 ELSE dict_get(points, a)
                  ELSE /\ dict_get(points_earned', a) = dict_get(points_earned, a)
                       /\ dict_get(points_missed', a) = dict_get(points_missed, a)
                       /\ dict_get(points', a) = dict_get(points, a)]_vars

\* earned + missed + the points of the assignee's chores that are PENDING
\* now
LivePointsPossible(assignee) ==
    dict_get(points_earned, assignee) + dict_get(points_missed, assignee)
        + PointsOf({ id \in DOMAIN sensors :
                       /\ sensors[id].assignee = assignee
                       /\ sensors[id].state = PENDING })

\* C20: once a mark service, start_new_day, reset_completed, reset_points,
\* adjust_points or a reconciliation has completed, the points_possible
\* read from every assignee's summary is earned + missed + the points of
\* that assignee's chores that are PENDING at the time of the read.
C20_SummaryShowsLivePointsPossible ==
    \A a \in DOMAIN summary_sensors :
        read_points_possible(summary_sensors[a])
            = LivePointsPossible(summary_sensors[a].assignee)

(***************************************************************************)
(* Properties of rejected calls                                            *)
(***************************************************************************)
\* The chores of the active snapshot have this slug
SlugInSnapshot(slug) ==
    /\ loader_config # None
    /\ \E i \in DOMAIN loader_config[1].chores :
           loader_config[1].chores[i].slug = slug

\* C27: async_create_chore with a chore whose (normalised) slug is the slug
\* of a chore of the active snapshot changes nothing: the active snapshot,
\* the configuration file, its modification time and the last-modification
\* marker are as before, no callback is invoked and no entity changes.
C27_DuplicateCreateRejected ==
    [][\A chore \in CreatedChores :
          (/\ last_op'.name = "create_chore"
           /\ SlugInSnapshot(chore.slug)
           /\ async_create_chore(chore))
          => /\ UNCHANGED <<loader_config, file, file_mtime, loader_last_mtime>>
             /\ notified' = <<>>
             /\ UNCHANGED <<sensors, privilege_sensors, summary_sensors>>
      ]_vars

\* A creation was rejected in the installation that has the dishes and the
\* trash, where every chore that can be created is a duplicate: nothing has
\* been written and nobody was notified
C27_Witness ==
    /\ last_op.name = "create_chore"
    /\ SlugInSnapshot(dishes) /\ SlugInSnapshot(trash)
    /\ file_mtime = 0
    /\ notified = <<>>

\* No chore entity is the named chore of the named assignee (of any
\* assignee when none is named)
NoSuchEntity(user, chore_slug) ==
    ~ \E id \in DOMAIN sensors :
          /\ sensors[id].chore.slug = chore_slug
          /\ (truthy(user) => sensors[id].assignee = user)

\* C28: a mark service called for a (user, chore_slug) that no chore entity
\* matches changes no chore state and no ledger counter, and
\* async_update_chore and async_delete_chore called with a slug that is not
\* in the active snapshot leave the snapshot and the file as they are and
\* invoke no callback.
C28_UnresolvedNamesChangeNothing ==
    [][/\ \A user \in Users, chore_slug \in Slugs :
              (/\ NoSuchEntity(user, chore_slug)
               /\ \/ (/\ last_op'.name = "mark_complete"
                      /\ handle_mark_complete(user, chore_slug))
                  \/ (/\ last_op'.name = "mark_pending"
                      /\ handle_mark_pending(user, chore_slug))
                  \/ (/\ last_op'.name = "mark_not_requested"
                      /\ handle_mark_not_requested(user, chore_slug)))
              => UNCHANGED <<sensors, points, points_earned, points_missed>>
       /\ \A slug \in Slugs :
              (/\ ~SlugInSnapshot(slug)
               /\ \/ (/\ last_op'.name = "update_chore"
                      /\ \E frequency \in {None, Some(ONCE)} :
                             async_update_chore(slug, frequency, None))
                  \/ (/\ last_op'.name = "delete_chore"
                      /\ async_delete_chore(slug)))
              => /\ UNCHANGED <<loader_config, file, file_mtime,
                               loader_last_mtime>>
                 /\ notified' = <<>>
                 /\ UNCHANGED <<sensors, privilege_sensors, summary_sensors>>
      ]_vars

\* The deletion of the trash was rejected in the installation that has the
\* dishes only and whose file was never written; bo's dishes are COMPLETE
\* and paid, and no call for Al, who has no chore, has changed that
C28_Witness ==
    /\ last_op.name = "delete_chore"
    /\ SlugInSnapshot(dishes) /\ ~SlugInSnapshot(trash)
    /\ file_mtime = 0
    /\ notified = <<>>
    /\ sensors[entity_key(bo, dishes)].state = COMPLETE
    /\ dict_get(points, bo) = 1

\* Every chore state and the missed counter of everybody but the named
\* assignee are as before
OthersUntouched(user) ==
    /\ \A id \in DOMAIN sensors :
           sensors[id].assignee # user =>
               /\ id \in DOMAIN sensors'
               /\ sensors'[id].state = sensors[id].state
    /\ \A a \in {Al, al_b} \ {user} :
           dict_get(points_missed', a) = dict_get(points_missed, a)

\* C29: handle_start_new_day and handle_reset_completed called with a user
\* leave every chore state and the missed counter of every other assignee
\* unchanged, whatever the names of the assignees are.
C29_UserFilterIsExact ==
    [][\A user \in {Al, al_b} :
          (\/ (/\ last_op'.name = "start_new_day"
               /\ handle_start_new_day(user))
           \/ (/\ last_op'.name = "reset_completed"
               /\ handle_reset_completed(user)))
          => OthersUntouched(user)
      ]_vars

(***************************************************************************)
(* Properties of the poll loop                                             *)
(***************************************************************************)
\* C21: at any time at most one poll-loop task exists: async_start_watching
\* while a loop is running creates no task and leaves the running one as it
\* is, and async_start_watching after async_stop_watching has returned
\* starts exactly one new loop.
C21_AtMostOnePollLoop ==
    /\ [](Cardinality(running_tasks) <= 1)
    /\ [][last_op'.name = "start_watching" =>
            IF watch_task # None
            THEN tasks' = tasks /\ watch_task' = watch_task
            ELSE /\ tasks' = Append(tasks, create_task)
                 /\ watch_task' = Some(Len(tasks'))
                 /\ running_tasks' = {Len(tasks')}]_vars

\* A second loop runs after the first one was stopped
C21_Witness ==
    /\ Len(tasks) = 2
    /\ tasks[1].pc = "done"
    /\ tasks[2].pc = "stat"
    /\ watch_task = Some(2)

\* C22: async_stop_watching waits for the iteration in flight: a loop that
\* has begun to notify the callbacks of a new snapshot terminates only after
\* every registered callback has been invoked and has returned or raised.
C22_StopWaitsForIteration ==
    \A t \in DOMAIN tasks :
        (tasks[t].pc = "done" /\ tasks[t].invoked # <<>>) =>
            /\ Len(tasks[t].invoked) = Len(callbacks)
            /\ tasks[t].completed = Len(callbacks)

\* C23: on every notification each registered callback is invoked exactly
\* once, with the active snapshot and in registration order; a callback that
\* raises neither keeps a later callback from being invoked nor ends the
\* loop.
C23_EveryCallbackOnceInOrder ==
    /\ [](\A t \in DOMAIN tasks :
            tasks[t].pc = "callback" =>
                /\ tasks[t].completed = Len(tasks[t].invoked) - 1
                /\ \A i \in DOMAIN tasks[t].invoked :
                       /\ i \in DOMAIN callbacks
                       /\ tasks[t].invoked[i].callback = callbacks[i]
                       /\ tasks[t].invoked[i].config = loader_config[1])
    /\ [][\A t \in DOMAIN tasks :
            (tasks[t].pc = "callback" /\ tasks'[t].pc # "callback") =>
                /\ tasks'[t].pc = "sleep"
                /\ tasks'[t].completed = Len(callbacks)
                /\ tasks'[t].invoked =
                       [i \in DOMAIN callbacks |->
                           [callback |-> callbacks[i],
                            config |-> loader_config[1]]]]_vars

\* A notification has ended in which a callback raised and the callback
\* registered after it was invoked
C23_Witness ==
    /\ tasks[1].pc = "sleep"
    /\ tasks[1].completed = 3
    /\ tasks[1].invoked[2].callback = RaisingCallback
    /\ tasks[1].invoked[3].callback = OtherCallback

ValidDocuments == { doc \in NotifyDocuments : loads(doc) }

C26_OwnSaveNeverReloads ==
    \A t \in DOMAIN tasks : tasks[t].pc \in {"sleep", "stat"}

(***************************************************************************)
(* Properties of the calls in flight                                       *)
(***************************************************************************)
\* C30: a reconciliation that the poll loop has triggered never runs while a
\* foreground operation on the same entity dicts is in flight: while the
\* loop is inside ChoreSensorManager.async_config_changed, no handler is
\* suspended midway.
C30_ReconciliationIsSerialized ==
    \A t \in DOMAIN tasks :
        (/\ tasks[t].pc = "callback"
         /\ tasks[t].invoked[Len(tasks[t].invoked)].callback = ManagerCallback)
            => in_flight = None

(***************************************************************************)
(* Properties of the ledger and of the entities                            *)
(***************************************************************************)
\* The sensors of an assignee whose state a step changes
Moved(assignee) ==
    { id \in DOMAIN sensors \cap DOMAIN sensors' :
        /\ sensors[id].assignee = assignee
        /\ sensors[id].state # sensors'[id].state }

\* C31: a chore that handle_mark_pending or handle_mark_not_requested moves
\* between PENDING and NOT_REQUESTED, in either direction, moves no points:
\* total, earned and missed stay as they are for every assignee.
C31_PendingNotRequestedMovesNoPoints ==
    [][last_op'.name \in {"mark_pending", "mark_not_requested"} =>
          ((\A a \in Assignees : \A id \in Moved(a) :
                /\ sensors[id].state \in {PENDING, NOT_REQUESTED}
                /\ sensors'[id].state \in {PENDING, NOT_REQUESTED})
            => UNCHANGED <<points, points_earned, points_missed>>)
      ]_vars

\* The dishes were marked pending from NOT_REQUESTED while the point of the
\* trash stays awarded
C31_Witness ==
    /\ last_op.name = "mark_pending"
    /\ joined(bo, dishes) \in DOMAIN sensors
    /\ joined(bo, trash) \in DOMAIN sensors
    /\ sensors[joined(bo, dishes)].state = PENDING
    /\ sensors[joined(bo, trash)].state = COMPLETE
    /\ dict_get(points, bo) = 1
    /\ dict_get(points_earned, bo) = 1

(***************************************************************************)
(* Properties of the privilege operations                                  *)
(***************************************************************************)
\* C32: async_temporarily_disable with a negative duration is rejected before
\* it changes anything: the state and disable_until of the privilege, in the
\* entity and in the storage, are as they were.
C32_NegativeDurationRejected ==
    [][\A key \in DOMAIN privilege_sensors :
          async_temporarily_disable(key, -1) =>
              UNCHANGED <<privilege_sensors, privilege_states,
                          privilege_disable_until>>]_vars

\* The operations that set a privilege by hand
DirectOperations ==
    {"enable", "disable", "temporarily_disable", "adjust_temporary_disable"}

\* C33: automatic re-evaluation never changes a MANUAL privilege: whatever
\* the chores do and however often the privilege is re-evaluated, its state
\* and disable_until, in the entity and in the storage, change only through
\* async_enable, async_disable, async_temporarily_disable and
\* async_adjust_temporary_disable.
C33_ManualPrivilegeChangesOnlyByHand ==
    [][last_op'.name \notin DirectOperations =>
          \A key \in DOMAIN privilege_sensors :
              LET sensor == privilege_sensors[key]
              IN  sensor.privilege.behavior = MANUAL_BEHAVIOR =>
                      /\ key \in DOMAIN privilege_sensors'
                      /\ privilege_sensors'[key] = sensor
                      /\ get_privilege_state(privilege_states',
                             sensor.assignee, sensor.privilege.slug)
                           = get_privilege_state(privilege_states,
                                 sensor.assignee, sensor.privilege.slug)
                      /\ get_privilege_disable_until(privilege_disable_until',
                             sensor.assignee, sensor.privilege.slug)
                           = get_privilege_disable_until(
                                 privilege_disable_until, sensor.assignee,
                                 sensor.privilege.slug)]_vars

\* The MANUAL "phone" has been re-evaluated with its linked chore complete
\* and is still disabled
C33_Witness ==
    /\ last_op.name = "update_from_chores"
    /\ sensors[joined(bo, dishes)].state = COMPLETE
    /\ privilege_sensors[PhoneKey].state = DISABLED

\* C36: once a privilege operation has completed (async_enable,
\* async_disable, async_temporarily_disable,
\* async_adjust_temporary_disable, automatic re-evaluation), disable_until
\* is set if and only if the state is TEMPORARILY_DISABLED, in the entity
\* and in the storage.
C36_TimerIffTemporarilyDisabled ==
    \A key \in DOMAIN privilege_sensors :
        LET sensor == privilege_sensors[key]
        IN  /\ (sensor.disable_until # None)
                   <=> (sensor.state = TEMPORARILY_DISABLED)
            /\ (get_privilege_disable_until(privilege_disable_until,
                    sensor.assignee, sensor.privilege.slug) # None)
                   <=> (get_privilege_state(privilege_states, sensor.assignee,
                            sensor.privilege.slug) = TEMPORARILY_DISABLED)

\* The MANUAL "phone" is temporarily disabled with an end time that an
\* adjustment has moved, and the AUTOMATIC "tv" has come out of a temporary
\* disable with its end time cleared
C36_Witness ==
    /\ last_op.name = "adjust_temporary_disable"
    /\ privilege_sensors[PhoneKey].state = TEMPORARILY_DISABLED
    /\ privilege_sensors[PhoneKey].disable_until = Some(2)
    /\ privilege_sensors[TvKey].state = DISABLED
    /\ privilege_sensors[TvKey].disable_until = None
    /\ get_privilege_state(privilege_states, bo, tv) = DISABLED

(***************************************************************************)
(* Properties of the identity of the entities                              *)
(***************************************************************************)
\* The (assignee, slug) pairs of the active snapshot
snapshot_pairs ==
    LET pairs == chore_pairs(loader_config[1].chores)
    IN  { <<pairs[i].assignee, pairs[i].chore.slug>> : i \in DOMAIN pairs }

\* C34: two distinct (assignee, slug) pairs of a snapshot never share a
\* runtime entity: every pair has an entity of its own, registered for that
\* assignee and that chore, and the entities of two distinct pairs are
\* different entities.
C34_EachPairHasItsOwnEntity ==
    \A p \in snapshot_pairs :
        /\ entity_key(p[1], p[2]) \in DOMAIN sensors
        /\ sensors[entity_key(p[1], p[2])].assignee = p[1]
        /\ sensors[entity_key(p[1], p[2])].chore.slug = p[2]
        /\ \A q \in snapshot_pairs :
               p # q => entity_key(p[1], p[2]) # entity_key(q[1], q[2])

(***************************************************************************)
(* Properties of the editing methods                                       *)
(***************************************************************************)
EditOperations == {"create_chore", "update_chore", "delete_chore"}

chore_slugs(config) == { config.chores[i].slug : i \in DOMAIN config.chores }

\* Some privilege of the snapshot links to the chore
is_linked(config, slug) ==
    \E i \in DOMAIN config.privileges :
        \E j \in DOMAIN config.privileges[i].linked_chores :
            config.privileges[i].linked_chores[j] = slug

\* The slugs a step has added to the snapshot or taken out of it
EditedSlugs ==
    (chore_slugs(loader_config[1]) \ chore_slugs(loader_config'[1]))
        \cup (chore_slugs(loader_config'[1]) \ chore_slugs(loader_config[1]))

\* C35: async_create_chore, async_update_chore and async_delete_chore of a
\* chore to which no privilege links leave the privileges of the active
\* snapshot unchanged, and the reconciliation they trigger adds or removes
\* no privilege entity.
C35_ChoreEditsKeepPrivileges ==
    [][(/\ last_op'.name \in EditOperations
        /\ loader_config # None
        /\ loader_config' # None
        /\ \A slug \in EditedSlugs : ~is_linked(loader_config[1], slug))
       => /\ loader_config'[1].privileges = loader_config[1].privileges
          /\ DOMAIN privilege_sensors' = DOMAIN privilege_sensors]_vars

(***************************************************************************)
(* Properties of overlapping service calls                                 *)
(***************************************************************************)
\* The points of the chores of the assignee that are COMPLETE
CompletePoints(assignee) ==
    LET RECURSIVE sum(_)
        sum(ids) ==
            IF ids = {} THEN 0
            ELSE LET id == CHOOSE x \in ids : TRUE
                 IN  sensors[id].chore.points + sum(ids \ {id})
    IN  sum({ id \in DOMAIN sensors :
                /\ sensors[id].assignee = assignee
                /\ sensors[id].state = COMPLETE })

\* The amounts that the calls in flight have added to the total of the
\* assignee and not yet to earned
RECURSIVE OwedToEarned(_, _)
OwedToEarned(calls, assignee) ==
    IF calls = <<>> THEN 0
    ELSE (IF Head(calls).pc = "add_points" /\ Head(calls).assignee = assignee
          THEN Head(calls).chore_points ELSE 0)
         + OwedToEarned(Tail(calls), assignee)

\* C37: under every interleaving of handle_mark_complete and
\* handle_mark_pending calls at their awaits, an award or a reversal is
\* applied once: the total is the sum of the points of the assignee's
\* COMPLETE chores, and so is earned but for the amounts the calls in
\* flight have still to add; once all calls have finished, total and
\* earned have both changed by +points for a chore that went from
\* non-COMPLETE to COMPLETE, by -points for one that went from COMPLETE to
\* PENDING, and by 0 otherwise.
C37_AwardsAndReversalsApplyOnce ==
    /\ get_points(bo) = CompletePoints(bo)
    /\ get_points_earned(bo) + OwedToEarned(in_flight, bo) = CompletePoints(bo)
    /\ in_flight = None => get_points_earned(bo) = get_points(bo)

\* A handle_mark_pending call has begun while a handle_mark_complete call on
\* the dishes was suspended in add_points: the award has reached the total
\* and been taken back from it, and neither has reached earned yet
C37_Witness ==
    /\ Len(in_flight) = 2
    /\ in_flight[1].service = "mark_complete"
    /\ in_flight[1].pc = "add_points"
    /\ in_flight[2].service = "mark_pending"
    /\ in_flight[2].pc = "add_points"
    /\ sensors[entity_key(bo, dishes)].state = PENDING
    /\ get_points(bo) = 0
    /\ get_points_earned(bo) = 0

\* C38: a handle_start_new_day call acts on one view of the chore states: no
\* chore is both counted toward missed by its first loop and reset from
\* COMPLETE by its second loop, also when a handle_mark_complete call runs
\* at the awaits between the two.
C38_NoChoreMissedAndReset ==
    \A i \in DOMAIN in_flight :
        in_flight[i].service = "start_new_day" =>
            in_flight[i].counted \cap in_flight[i].reset = {}

(***************************************************************************)
(* Properties of the poll loop under rewrites                              *)
(***************************************************************************)
\* C39: when the file is replaced by a valid document that differs from the
\* active snapshot and is then left alone while the watcher runs, the
\* watcher eventually makes the document the active snapshot and notifies
\* the callbacks, whenever the write happens (also between the read of a
\* load in progress and its recording of the modification time) and
\* whatever modification time it leaves (later or earlier than the one last
\* seen).
C39_RewriteIsEventuallyLoaded ==
    \A doc \in RewriteDocuments : \A mtime \in 0 .. MaxWrites :
        (/\ file = Some(doc)
         /\ file_mtime = mtime
         /\ loader_config # Some(build_config(doc)))
          ~> (\/ file # Some(doc)
              \/ file_mtime # mtime
              \/ /\ loader_config = Some(build_config(doc))
                 /\ tasks[1].pc = "callback"
                 /\ tasks[1].invoked[1].config = build_config(doc))

(***************************************************************************)
(* Properties of the signs of the counters                                 *)
(***************************************************************************)
\* C40: earned and missed are never negative for any assignee, under every
\* sequence of mark operations, rollovers, resets and reconciliations,
\* reconciliations that change the points of a COMPLETE chore included.
C40_EarnedAndMissedNeverNegative ==
    /\ \A assignee \in DOMAIN points_earned : points_earned[assignee] >= 0
    /\ \A assignee \in DOMAIN points_missed : points_missed[assignee] >= 0

====
